---------------------------- MODULE Spec2Model ----------------------------
(***************************************************************************)
(* Verification model of the visual-parking repository.                    *)
(*                                                                         *)
(*  Part I   Stream supervisor: CameraManager                              *)
(*           (parking-backend/app/cv/camera_manager.py)                    *)
(*  Part II  Event dispatcher / rate limiter: CVParkingService             *)
(*           (parking-backend/app/cv/cv_service.py)                        *)
(*  Part III Entry pipeline with its backend client: EntryPipeline         *)
(*           (parking-cv-service/src/pipelines/entry_pipeline.py)          *)
(*                                                                         *)
(* Each part has its own initial predicate and next-state relation over    *)
(* the module's variables; the variables of the other parts stay at their  *)
(* initial values.                                                         *)
(***************************************************************************)
EXTENDS Integers, Sequences, FiniteSets, TLC

(***************************************************************************)
(* Bounds of the model.                                                    *)
(***************************************************************************)
\* camera ids 1..MaxCams
MaxCams == 2
\* capture/flag/thread triples created over a run
MaxWorkers == 2
\* clock ticks the supervisor model lets pass
MaxTime == 3
\* calls of the supervisor's operations over a run
MaxCalls == 4

CamIds == 1..MaxCams
WorkerIds == 1..MaxWorkers
\* CameraStream.fps values tried (frames per second)
FpsSet == {1, 2}
\* clock ticks per second in the supervisor model: one tick is the frame
\* interval of the fastest camera
TicksPerSecond == CHOOSE n \in FpsSet : \A f \in FpsSet : f <= n

VARIABLES
    \* ---- Part I: CameraManager ----
    cameras,             \* self.cameras: camera_id -> CameraStream
    capture_objects,     \* self.capture_objects: camera_id -> capture object
    processing_threads,  \* self.processing_threads: camera_id -> thread object
    stop_flags,          \* self.stop_flags: camera_id -> Event object
    frame_counts,        \* self.frame_counts: camera_id -> int
    is_running,          \* self.is_running
    caps,                \* the VideoCapture objects: "none" | "open" | "released"
    events,              \* the threading.Event objects: is_set()
    threads,             \* the Thread objects running _process_camera_stream
    nWorkers,            \* how many capture/Event/Thread triples were created
    sup,                 \* where the caller of the supervisor's operations is
    now,                 \* time.time(), in ticks
    nCalls,              \* how many supervisor operations were called
    hist,                \* per thread: observations for the properties
    lastOp,              \* the last completed supervisor operation, for the properties
    \* ---- Part II: CVParkingService ----
    last_api_call,       \* self.last_api_call: (type, plate) -> datetime
    detection_stats,     \* self.detection_stats
    tasks,               \* the coroutines handed to the event loop by create_task
    handlers,            \* per camera thread: where its callback is
    clock,               \* datetime.now(), in seconds
    admitAt,             \* per key: when _is_rate_limited last let a request pass
    outcome,             \* how the last callback step ended
    delivered,           \* how many detections the camera threads delivered
    \* ---- Part III: EntryPipeline ----
    ep,                  \* the pipeline object and the position of its run loop
    ep_now,              \* datetime.now(), in seconds
    ep_calls,            \* register_entry requests sent to the backend
    \* ---- Part IV: SlotOccupancyDetector ----
    camera_rois,         \* self.camera_rois: camera_id -> list of SlotROI
    previous_statuses,   \* self.previous_statuses: slot_id -> SlotStatus
    bg_subtractors,      \* self.bg_subtractors: the camera ids that have a background model
    sd_last,             \* the last detector operation: its result and its log lines
    scored,              \* per slot id: the flag of its latest scoring pass
    roi_file,            \* the file save_roi_config writes, and what it was written from
    \* ---- Part V: IndoorPipeline ----
    ip,                  \* the pipeline object and the result of its last call
    ip_seen,             \* per spot id: the flag of its latest scoring cycle
    \* ---- Part VI: functions of one call ----
    calc,                \* the last call of a pure function: its arguments and results
    \* ---- Part VII: the backend's entry and exit routers ----
    db_tickets,          \* table tickets: the row with id i is db_tickets[i]
    db_slots,            \* table slots: slot id -> row
    db_floors,           \* table floors: floor name -> occupancy counters
    db_events,           \* table event_logs: the rows in insertion order
    db_now,              \* datetime.utcnow(), in seconds
    response             \* the last request handled and the HTTP response to it

supVars == <<cameras, capture_objects, processing_threads, stop_flags,
             frame_counts, is_running, caps, events, threads, nWorkers,
             sup, now, nCalls, hist, lastOp>>

dispVars == <<last_api_call, detection_stats, tasks, handlers, clock, admitAt,
              outcome, delivered>>

pipeVars == <<ep, ep_now, ep_calls>>

slotVars == <<camera_rois, previous_statuses, bg_subtractors, sd_last, scored,
              roi_file>>

indoorVars == <<ip, ip_seen>>

calcVars == <<calc>>

backendVars == <<db_tickets, db_slots, db_floors, db_events, db_now, response>>

vars == <<supVars, dispVars, pipeVars, slotVars, indoorVars, calcVars,
          backendVars>>

\* What the operations of one component leave alone: the other components.
exceptSup == <<dispVars, pipeVars, slotVars, indoorVars, calcVars,
    backendVars>>
exceptDisp == <<supVars, pipeVars, slotVars, indoorVars, calcVars,
    backendVars>>
exceptPipe == <<supVars, dispVars, slotVars, indoorVars, calcVars,
    backendVars>>
exceptSlots == <<supVars, dispVars, pipeVars, indoorVars, calcVars,
    backendVars>>
exceptIndoor == <<supVars, dispVars, pipeVars, slotVars, calcVars,
    backendVars>>
exceptCalc == <<supVars, dispVars, pipeVars, slotVars, indoorVars,
    backendVars>>
exceptBackend == <<supVars, dispVars, pipeVars, slotVars, indoorVars,
    calcVars>>

(***************************************************************************)
(* Python dict helpers.                                                    *)
(***************************************************************************)
EmptyDict == [k \in {} |-> 0]
Put(d, k, v) == [x \in (DOMAIN d) \cup {k} |-> IF x = k THEN v ELSE d[x]]
Del(d, k) == [x \in (DOMAIN d) \ {k} |-> d[x]]

(***************************************************************************)
(* Part I.  CameraManager                                                  *)
(***************************************************************************)
NoThread == [pc |-> "unborn", cam |-> 0, fps |-> 0, last |-> 0, cur |-> 0]
NoHist == [after |-> 0, proc |-> -1]
Idle == [phase |-> "idle", queue |-> <<>>, remove |-> FALSE]
NoOp == [kind |-> "none"]

InitSup ==
    /\ cameras = EmptyDict
    /\ capture_objects = EmptyDict
    /\ processing_threads = EmptyDict
    /\ stop_flags = EmptyDict
    /\ frame_counts = EmptyDict
    /\ is_running = FALSE
    /\ caps = [w \in WorkerIds |-> "none"]
    /\ events = [w \in WorkerIds |-> FALSE]
    /\ threads = [w \in WorkerIds |-> NoThread]
    /\ nWorkers = 0
    /\ sup = Idle
    /\ now = TicksPerSecond
    /\ nCalls = 0
    /\ hist = [w \in WorkerIds |-> NoHist]
    /\ lastOp = NoOp

\* The supervisor's maps and objects, as start_camera reads and writes them.
SupState ==
    [capture_objects |-> capture_objects, processing_threads |-> processing_threads,
     stop_flags |-> stop_flags, caps |-> caps, events |-> events,
     threads |-> threads, n |-> nWorkers]

\* The caller is between operations and makes one more call.
Called ==
    /\ sup.phase = "idle"
    /\ nCalls < MaxCalls
    /\ nCalls' = nCalls + 1

\* add_camera: (re)registers the camera and zeroes its frame count.
AddCamera(c, fps, active) ==
    /\ Called
    /\ cameras' = Put(cameras, c, [fps |-> fps, is_active |-> active])
    /\ frame_counts' = Put(frame_counts, c, 0)
    /\ lastOp' = NoOp
    /\ UNCHANGED <<capture_objects, processing_threads, stop_flags, is_running,
                   caps, events, threads, nWorkers, sup, now, hist>>

\* start_camera with the capture stored before cap.isOpened() is looked at.
StartCameraOp_StoreBeforeCheck(st, c, opened) ==
    IF c \notin DOMAIN cameras THEN st
    ELSE LET w == st.n + 1 IN
         IF ~opened
         THEN [st EXCEPT !.n = w, !.capture_objects = Put(@, c, w)]
         ELSE [st EXCEPT
                 !.n = w,
                 !.caps = [@ EXCEPT ![w] = "open"],
                 !.capture_objects = Put(@, c, w),
                 !.stop_flags = Put(@, c, w),
                 !.threads = [@ EXCEPT ![w] =
                     [pc |-> "head", cam |-> c, fps |-> cameras[c].fps,
                      last |-> 0, cur |-> 0]],
                 !.processing_threads = Put(@, c, w)]

\* start_camera with an Event kept per camera id and never cleared: the new
\* thread is handed the flag of the camera's earlier thread as it stands.
StartCameraOp_ReusesSetFlag(st, c, opened) ==
    IF c \notin DOMAIN cameras THEN st
    ELSE IF ~opened THEN st
    ELSE LET w == st.n + 1 IN
         [st EXCEPT
            !.n = w,
            !.caps = [@ EXCEPT ![w] = "open"],
            !.capture_objects = Put(@, c, w),
            !.events = [@ EXCEPT ![w] =
                \E v \in 1..st.n : st.threads[v].cam = c /\ st.events[v]],
            !.stop_flags = Put(@, c, w),
            !.threads = [@ EXCEPT ![w] =
                [pc |-> "head", cam |-> c, fps |-> cameras[c].fps,
                 last |-> 0, cur |-> 0]],
            !.processing_threads = Put(@, c, w)]

\* start_camera(c) on state st; opened: whether cap.isOpened() (False too when
\* int(rtsp_url) raises, which the try block swallows).
StartCameraOp(st, c, opened) ==
    IF c \notin DOMAIN cameras THEN st
    ELSE IF ~opened THEN st
    ELSE LET w == st.n + 1 IN
         [st EXCEPT
            !.n = w,
            !.caps = [@ EXCEPT ![w] = "open"],
            !.capture_objects = Put(@, c, w),
            !.events = [@ EXCEPT ![w] = FALSE],
            !.stop_flags = Put(@, c, w),
            !.threads = [@ EXCEPT ![w] =
                [pc |-> "head", cam |-> c, fps |-> cameras[c].fps,
                 last |-> 0, cur |-> 0]],
            !.processing_threads = Put(@, c, w)]

Install(st) ==
    /\ capture_objects' = st.capture_objects
    /\ processing_threads' = st.processing_threads
    /\ stop_flags' = st.stop_flags
    /\ caps' = st.caps
    /\ events' = st.events
    /\ threads' = st.threads
    /\ nWorkers' = st.n

StartLog(tried, okSet) ==
    [kind |-> "start", tried |-> tried, opened |-> okSet]

StartCamera(c, opened) ==
    /\ Called
    /\ nWorkers < MaxWorkers
    /\ Install(StartCameraOp(SupState, c, opened))
    /\ lastOp' = StartLog({c} \cap DOMAIN cameras, IF opened THEN {c} \cap DOMAIN cameras ELSE {})
    /\ UNCHANGED <<cameras, frame_counts, is_running, sup, now, hist>>

\* start_all_cameras: start_camera for every active camera, in the dict's order.
RECURSIVE StartEach(_, _, _)
StartEach(st, todo, okSet) ==
    IF todo = {} THEN st
    ELSE LET c == CHOOSE x \in todo : \A y \in todo : x <= y IN
         StartEach(StartCameraOp(st, c, c \in okSet), todo \ {c}, okSet)

ActiveCameras == {c \in DOMAIN cameras : cameras[c].is_active}

StartAll(okSet) ==
    /\ Called
    /\ okSet \subseteq ActiveCameras
    /\ nWorkers + Cardinality(okSet) <= MaxWorkers
    /\ is_running' = TRUE
    /\ Install(StartEach(SupState, ActiveCameras, okSet))
    /\ lastOp' = StartLog(ActiveCameras, okSet)
    /\ UNCHANGED <<cameras, frame_counts, sup, now, hist>>

\* stop_camera(c), first half: set the flag, then block in join(timeout=2).
SetFlag(ev, c) ==
    IF c \in DOMAIN stop_flags THEN [ev EXCEPT ![stop_flags[c]] = TRUE] ELSE ev

StopCamera(c) ==
    /\ Called
    /\ events' = SetFlag(events, c)
    /\ sup' = [phase |-> "join", queue |-> <<c>>, remove |-> FALSE]
    /\ lastOp' = NoOp
    /\ UNCHANGED <<cameras, capture_objects, processing_threads, stop_flags,
                   frame_counts, is_running, caps, threads, nWorkers, now, hist>>

\* remove_camera(c) without its call of stop_camera(c).
RemoveCamera_NoStop(c) ==
    /\ Called
    /\ c \in DOMAIN cameras
    /\ cameras' = Del(cameras, c)
    /\ frame_counts' = Del(frame_counts, c)
    /\ lastOp' = NoOp
    /\ UNCHANGED <<capture_objects, processing_threads, stop_flags, is_running,
                   caps, events, threads, nWorkers, sup, now, hist>>

\* remove_camera(c): stop_camera(c), then the camera's entries are deleted.
RemoveCamera(c) ==
    /\ Called
    /\ c \in DOMAIN cameras
    /\ events' = SetFlag(events, c)
    /\ sup' = [phase |-> "join", queue |-> <<c>>, remove |-> TRUE]
    /\ lastOp' = NoOp
    /\ UNCHANGED <<cameras, capture_objects, processing_threads, stop_flags,
                   frame_counts, is_running, caps, threads, nWorkers, now, hist>>

RECURSIVE SortedSeq(_)
SortedSeq(S) ==
    IF S = {} THEN <<>>
    ELSE LET c == CHOOSE x \in S : \A y \in S : x <= y IN <<c>> \o SortedSeq(S \ {c})

\* stop_all_cameras: stop_camera for every registered camera.
StopAll ==
    /\ Called
    /\ is_running' = FALSE
    /\ lastOp' = NoOp
    /\ IF DOMAIN cameras = {}
       THEN UNCHANGED <<events, sup>>
       ELSE LET q == SortedSeq(DOMAIN cameras) IN
            /\ events' = SetFlag(events, Head(q))
            /\ sup' = [phase |-> "join", queue |-> q, remove |-> FALSE]
    /\ UNCHANGED <<cameras, capture_objects, processing_threads, stop_flags,
                   frame_counts, caps, threads, nWorkers, now, hist>>

\* A thread blocked in I/O or inference does not see the flag within the 2 s.
Blocked(w) == threads[w].pc \in {"read", "process"}

\* join(timeout=2) returns: the thread ended, or the timeout passed.
JoinReturns(c) ==
    IF c \notin DOMAIN processing_threads THEN TRUE
    ELSE threads[processing_threads[c]].pc = "done" \/ Blocked(processing_threads[c])

\* The capture objects after stop_camera(c) called release().
ReleaseCapture(cp, c) ==
    IF c \in DOMAIN capture_objects
    THEN [cp EXCEPT ![capture_objects[c]] = "released"] ELSE cp

\* stop_camera(c), second half, and what follows it in the caller.
StopReturn ==
    /\ sup.phase = "join"
    /\ LET c == Head(sup.queue)
           rest == Tail(sup.queue)
           timedOut == c \in DOMAIN processing_threads
                       /\ threads[processing_threads[c]].pc # "done"
       IN
       /\ JoinReturns(c)
       /\ processing_threads' = Del(processing_threads, c)
       /\ caps' = ReleaseCapture(caps, c)
       /\ capture_objects' = Del(capture_objects, c)
       /\ stop_flags' = Del(stop_flags, c)
       /\ IF sup.remove
          THEN /\ cameras' = Del(cameras, c)
               /\ frame_counts' = Del(frame_counts, c)
          ELSE UNCHANGED <<cameras, frame_counts>>
       /\ lastOp' = [kind |-> "stop", cam |-> c, timedOut |-> timedOut]
       /\ IF rest = <<>>
          THEN /\ sup' = Idle
               /\ UNCHANGED events
          ELSE /\ sup' = [sup EXCEPT !.queue = rest]
               /\ events' = SetFlag(events, Head(rest))
    /\ UNCHANGED <<is_running, threads, nWorkers, now, nCalls, hist>>

\* get_camera_status(): per registered camera, whether it is running and the
\* frames it processed.
GetCameraStatus ==
    [c \in DOMAIN cameras |->
        [is_active |-> cameras[c].is_active,
         is_running |-> c \in DOMAIN processing_threads,
         frames_processed |-> IF c \in DOMAIN frame_counts THEN frame_counts[c] ELSE 0]]

\* get_system_stats()
GetSystemStats ==
    [total_cameras |-> Cardinality(DOMAIN cameras),
     active_cameras |-> Cardinality({c \in DOMAIN cameras : cameras[c].is_active}),
     running_cameras |-> Cardinality(DOMAIN processing_threads),
     is_system_running |-> is_running]

(***************************************************************************)
(* The worker: _process_camera_stream(camera_id, cap, stop_flag).          *)
(* Thread w owns capture object w and Event object w.                      *)
(***************************************************************************)
\* The loop looking the flag up in self.stop_flags instead of polling its own.
StopRequested_Registered(w) ==
    IF threads[w].cam \in DOMAIN stop_flags
    THEN events[stop_flags[threads[w].cam]] ELSE FALSE

\* while not stop_flag.is_set()
StopRequested(w) == events[w]

\* current_time - last_frame_time < frame_interval, with frame_interval = 1.0 / fps
ThrottleSkips(w, t) == (t - threads[w].last) * threads[w].fps < TicksPerSecond

\* Loop head: the flag is polled, then the throttle gate is evaluated; a
\* throttled iteration sleeps 1 ms and comes back here.  The locals of a
\* thread that has returned are dropped.
WHead(w) ==
    /\ threads[w].pc \in {"head", "retry", "backoff"}
    /\ threads' = [threads EXCEPT ![w] =
          IF StopRequested(w) THEN [NoThread EXCEPT !.pc = "done", !.cam = threads[w].cam]
          ELSE IF ThrottleSkips(w, now) THEN @
          ELSE [@ EXCEPT !.pc = "read", !.cur = now]]
    /\ UNCHANGED <<cameras, capture_objects, processing_threads, stop_flags,
                   frame_counts, is_running, caps, events, nWorkers, sup, now,
                   nCalls, hist, lastOp>>

\* The thread after cap.read() returned ret.  A failed read logs a warning and
\* continues: the loop head is reached again with nothing slept ("retry") and
\* last_frame_time unchanged.  frame_counts[camera_id] += 1 raises KeyError
\* once the camera was removed, and the except block sleeps 1 s before the
\* next iteration ("head").
AfterRead(w, ret) ==
    IF ~ret THEN [threads[w] EXCEPT !.pc = "retry", !.cur = 0]
    ELSE [threads[w] EXCEPT
            !.last = threads[w].cur,
            !.cur = 0,
            !.pc = IF threads[w].cam \in DOMAIN frame_counts
                   THEN "process" ELSE "backoff"]

\* ret, frame = cap.read(): blocking; a released capture yields no frame.
WRead(w, ret) ==
    /\ threads[w].pc = "read"
    /\ ret => caps[w] = "open"
    /\ threads' = [threads EXCEPT ![w] = AfterRead(w, ret)]
    /\ frame_counts' =
          IF ret /\ threads[w].cam \in DOMAIN frame_counts
          THEN [frame_counts EXCEPT ![threads[w].cam] = @ + 1]
          ELSE frame_counts
    /\ hist' = IF ret
               THEN [hist EXCEPT ![w] =
                       [after |-> @.after + (IF events[w] THEN 1 ELSE 0),
                        proc |-> now]]
               ELSE hist
    /\ UNCHANGED <<cameras, capture_objects, processing_threads, stop_flags,
                   is_running, caps, events, nWorkers, sup, now, nCalls, lastOp>>

\* What the loop does with an exception of _process_frame: `except Exception`
\* logs it and sleeps 1 s, and the loop head is next in either case.
AfterProcess_Uncaught(w, raised) ==
    IF raised THEN [NoThread EXCEPT !.pc = "done", !.cam = threads[w].cam]
    ELSE [threads[w] EXCEPT !.pc = "head"]

\* The thread after _process_frame returned (then time.sleep(0.01), "head")
\* or raised (the except block: logger.error, time.sleep(1), "backoff").
AfterProcess(w, raised) ==
    [threads[w] EXCEPT !.pc = IF raised THEN "backoff" ELSE "head"]

\* _process_frame(camera_id, frame): self.cameras[camera_id] raises KeyError
\* when the camera was removed; vehicle detection, plate extraction and the
\* callbacks may raise as well.
WProcess(w, raised) ==
    /\ threads[w].pc = "process"
    /\ threads[w].cam \notin DOMAIN cameras => raised
    /\ threads' = [threads EXCEPT ![w] = AfterProcess(w, raised)]
    /\ UNCHANGED <<cameras, capture_objects, processing_threads, stop_flags,
                   frame_counts, is_running, caps, events, nWorkers, sup, now,
                   nCalls, hist, lastOp>>

WorkerStep(w) ==
    \/ WHead(w)
    \/ \E ret \in BOOLEAN : WRead(w, ret)
    \/ \E raised \in BOOLEAN : WProcess(w, raised)

Tick ==
    /\ now < TicksPerSecond + MaxTime
    /\ now' = now + 1
    /\ UNCHANGED <<cameras, capture_objects, processing_threads, stop_flags,
                   frame_counts, is_running, caps, events, threads, nWorkers,
                   sup, nCalls, hist, lastOp>>

(***************************************************************************)
(* Part II.  CVParkingService: the callbacks the camera threads call       *)
(***************************************************************************)
\* the two camera threads whose callbacks may run at the same time
HandlerIds == {1, 2}
Plates == {"KA01AB1234", "MH12CD5678"}
\* license_plate is None when no plate was read
NoPlate == ""
\* plate confidences tried, in tenths (camera_manager passes 0.0 with no plate)
ConfSet == {4, 7}
\* CVSystemConfig.plate_confidence_threshold = 0.7, in tenths
PlateConfidenceThreshold == 7
\* self.api_cooldown = timedelta(seconds=5)
ApiCooldown == 5
\* seconds the dispatcher model lets pass
MaxClock == 6
\* detections the camera threads deliver in the dispatcher model
MaxDetections == 3

DispPlates == {"KA01AB1234"}
Keys == {"entry", "exit"} \X DispPlates
NoDetection == [role |-> "", plate |-> NoPlate, conf |-> 0]
IdleHandler == [pc |-> "idle", det |-> NoDetection, since |-> -1]
\* How the last callback step ended: the detection, the seconds since the
\* key was last admitted (-1: never), the tasks scheduled and the failures
\* counted for it.
NoOutcome == [result |-> "none", det |-> NoDetection, since |-> -1,
              scheduled |-> 0, failed |-> 0]

InitDisp ==
    /\ last_api_call = EmptyDict
    /\ detection_stats = [total_detections |-> 0, successful_entries |-> 0,
                          successful_exits |-> 0, failed_detections |-> 0]
    /\ tasks = <<>>
    /\ handlers = [t \in HandlerIds |-> IdleHandler]
    /\ clock = 0
    /\ admitAt = [k \in Keys |-> -1]
    /\ outcome = NoOutcome
    /\ delivered = 0

\* f"{detection_type}_{license_plate}"
KeyOf(det) == <<IF det.role = "ENTRY" THEN "entry" ELSE "exit", det.plate>>

\* last_call and datetime.now() - last_call < self.api_cooldown
InCooldown(key, t) ==
    IF key \in DOMAIN last_api_call
    THEN t - last_api_call[key] < ApiCooldown ELSE FALSE

\* plate_confidence < self.config.plate_confidence_threshold
LowConfidence(det) == det.conf < PlateConfidenceThreshold

\* asyncio.get_running_loop() in the calling thread: the callbacks run in the
\* threading.Thread workers of CameraManager, which run no event loop.
CallerHasRunningLoop == FALSE

\* asyncio.create_task(coro): the task is scheduled on the caller's running
\* loop; without one it raises RuntimeError and schedules nothing.
CreateTask(q, coro) == IF CallerHasRunningLoop THEN Append(q, coro) ELSE q

\* The backend operation behind the callback camera_manager._process_frame
\* chooses by the camera's role: _call_entry_api, _call_exit_api, and none for
\* INDOOR, whose callback only logs.
ApiOf(role) ==
    CASE role = "ENTRY" -> "registerEntry"
      [] role = "EXIT" -> "registerExit"
      [] OTHER -> "none"

SinceAdmitted(key) == IF admitAt[key] < 0 THEN -1 ELSE clock - admitAt[key]

\* The first part of the callback with the timestamp of the key renewed by a
\* request that is dropped.
HandleBegin_DropRestartsWindow(t, det) ==
    /\ handlers[t].pc = "idle"
    /\ delivered < MaxDetections
    /\ delivered' = delivered + 1
    /\ IF det.plate = NoPlate
       THEN /\ outcome' = [NoOutcome EXCEPT !.result = "no_plate", !.det = det]
            /\ UNCHANGED <<handlers, admitAt>>
            /\ UNCHANGED last_api_call
       ELSE IF InCooldown(KeyOf(det), clock)
       THEN /\ outcome' = [NoOutcome EXCEPT !.result = "rate_limited", !.det = det,
                                            !.since = SinceAdmitted(KeyOf(det))]
            /\ UNCHANGED <<handlers, admitAt>>
            /\ last_api_call' = Put(last_api_call, KeyOf(det), clock)
       ELSE /\ handlers' = [handlers EXCEPT ![t] =
                   [pc |-> "record", det |-> det,
                    since |-> SinceAdmitted(KeyOf(det))]]
            /\ UNCHANGED last_api_call
            /\ admitAt' = [admitAt EXCEPT ![KeyOf(det)] = clock]
            /\ outcome' = [NoOutcome EXCEPT !.result = "admitted", !.det = det,
                                            !.since = SinceAdmitted(KeyOf(det))]
    /\ UNCHANGED <<detection_stats, tasks, clock>>

\* The first part of the callback with a detection without plate counted as a
\* failed detection.
HandleBegin_NoPlateCounted(t, det) ==
    /\ handlers[t].pc = "idle"
    /\ delivered < MaxDetections
    /\ delivered' = delivered + 1
    /\ IF det.plate = NoPlate
       THEN /\ outcome' = [NoOutcome EXCEPT !.result = "no_plate", !.det = det]
            /\ UNCHANGED <<handlers, admitAt>>
            /\ detection_stats' = [detection_stats EXCEPT !.failed_detections = @ + 1]
       ELSE IF InCooldown(KeyOf(det), clock)
       THEN /\ outcome' = [NoOutcome EXCEPT !.result = "rate_limited", !.det = det,
                                            !.since = SinceAdmitted(KeyOf(det))]
            /\ UNCHANGED <<handlers, admitAt>>
            /\ UNCHANGED detection_stats
       ELSE /\ handlers' = [handlers EXCEPT ![t] =
                   [pc |-> "record", det |-> det,
                    since |-> SinceAdmitted(KeyOf(det))]]
            /\ UNCHANGED detection_stats
            /\ admitAt' = [admitAt EXCEPT ![KeyOf(det)] = clock]
            /\ outcome' = [NoOutcome EXCEPT !.result = "admitted", !.det = det,
                                            !.since = SinceAdmitted(KeyOf(det))]
    /\ UNCHANGED <<last_api_call, tasks, clock>>

\* _handle_entry_detection / _handle_exit_detection, up to the rate limiter's
\* look at last_api_call: no plate, or still in cooldown, and the callback returns.
HandleBegin(t, det) ==
    /\ handlers[t].pc = "idle"
    /\ delivered < MaxDetections
    /\ delivered' = delivered + 1
    /\ IF det.plate = NoPlate
       THEN /\ outcome' = [NoOutcome EXCEPT !.result = "no_plate", !.det = det]
            /\ UNCHANGED <<handlers, admitAt>>
       ELSE IF InCooldown(KeyOf(det), clock)
       THEN /\ outcome' = [NoOutcome EXCEPT !.result = "rate_limited", !.det = det,
                                            !.since = SinceAdmitted(KeyOf(det))]
            /\ UNCHANGED <<handlers, admitAt>>
       ELSE /\ handlers' = [handlers EXCEPT ![t] =
                   [pc |-> "record", det |-> det,
                    since |-> SinceAdmitted(KeyOf(det))]]
            /\ admitAt' = [admitAt EXCEPT ![KeyOf(det)] = clock]
            /\ outcome' = [NoOutcome EXCEPT !.result = "admitted", !.det = det,
                                            !.since = SinceAdmitted(KeyOf(det))]
    /\ UNCHANGED <<last_api_call, detection_stats, tasks, clock>>

\* The rest of the callback: the rate limiter records datetime.now() for the
\* key and returns False; an ENTRY detection then passes the confidence gate
\* or is counted as failed; what passes is handed to asyncio.create_task, and
\* the RuntimeError of a thread without event loop is caught and logged.
HandleFinish(t) ==
    /\ handlers[t].pc = "record"
    /\ LET det == handlers[t].det
           low == det.role = "ENTRY" /\ LowConfidence(det)
           q == IF low THEN tasks
                ELSE CreateTask(tasks, [api |-> ApiOf(det.role), det |-> det])
       IN
       /\ last_api_call' = Put(last_api_call, KeyOf(det), clock)
       /\ detection_stats' =
             IF low
             THEN [detection_stats EXCEPT !.failed_detections = @ + 1]
             ELSE detection_stats
       /\ tasks' = q
       /\ outcome' =
             [result |-> IF low THEN "low_confidence"
                         ELSE IF Len(q) > Len(tasks) THEN "dispatched"
                         ELSE "dispatch_failed",
              det |-> det,
              since |-> handlers[t].since,
              scheduled |-> Len(q) - Len(tasks),
              failed |-> IF low THEN 1 ELSE 0]
    /\ handlers' = [handlers EXCEPT ![t] = IdleHandler]
    /\ UNCHANGED <<clock, admitAt, delivered>>

\* _handle_occupancy_detection: returns without camera_id, else logs the
\* detection at debug level; nothing is stored or sent.
HandleOccupancy(t, det) ==
    /\ handlers[t].pc = "idle"
    /\ delivered < MaxDetections
    /\ delivered' = delivered + 1
    /\ outcome' = [NoOutcome EXCEPT !.result = "occupancy_logged", !.det = det]
    /\ UNCHANGED <<last_api_call, detection_stats, tasks, handlers, clock, admitAt>>

ClockTick ==
    /\ clock < MaxClock
    /\ clock' = clock + 1
    /\ UNCHANGED <<last_api_call, detection_stats, tasks, handlers, admitAt, outcome,
                   delivered>>

\* reset_statistics: detection_stats is replaced by a dictionary of zeros;
\* last_api_call is not touched.
ResetStatistics ==
    /\ detection_stats' = [total_detections |-> 0, successful_entries |-> 0,
                           successful_exits |-> 0, failed_detections |-> 0]
    /\ outcome' = [NoOutcome EXCEPT !.result = "statistics_reset"]
    /\ UNCHANGED <<last_api_call, tasks, handlers, clock, admitAt, delivered>>

\* What the camera threads hand to the callbacks: camera_manager passes
\* plate_confidence 0.0 together with license_plate None.
Detections ==
    {[role |-> r, plate |-> p, conf |-> c] :
        r \in {"ENTRY", "EXIT"}, p \in DispPlates, c \in ConfSet}
    \cup {[role |-> r, plate |-> NoPlate, conf |-> 0] : r \in {"ENTRY", "EXIT"}}

\* What the thread of an INDOOR camera hands to the occupancy callback.
IndoorDetections ==
    {[role |-> "INDOOR", plate |-> p, conf |-> IF p = NoPlate THEN 0 ELSE PlateConfidenceThreshold] :
        p \in DispPlates \cup {NoPlate}}

(***************************************************************************)
(* Part III.  EntryPipeline.run / process_frame with its BackendClient     *)
(***************************************************************************)
\* Config.FRAME_SKIP
FrameSkip == 5
\* the duplicate window of process_frame, in seconds
DuplicateWindow == 10
\* frames the pipeline model reads
MaxFrames == 10
\* clock advances the pipeline model makes
MaxAdvances == 2
\* by how many seconds the clock advances between steps
EpSteps == {1, 9, 24 * 60 * 60}

NoTime == -1

InitPipe ==
    /\ ep = [pc |-> "read", frame_count |-> 0, last_processed_plate |-> NoPlate,
             last_processed_time |-> NoTime, advances |-> 0,
             last_result |-> "none", elapsed |-> NoTime]
    /\ ep_now = 0
    /\ ep_calls = <<>>

\* timedelta.seconds: the seconds field of the normalised (days, seconds) pair
TimedeltaSeconds(d) == d % (24 * 60 * 60)

\* last_processed_plate == plate_text and last_processed_time and
\* (current_time - last_processed_time).seconds < 10
IsDuplicate(text, t) ==
    /\ ep.last_processed_plate = text
    /\ ep.last_processed_time # NoTime
    /\ TimedeltaSeconds(t - ep.last_processed_time) < DuplicateWindow

\* ret, frame = cap.read() in run(): a failed read ends the loop.
EpRead(ret) ==
    /\ ep.pc = "read"
    /\ ret => ep.frame_count < MaxFrames
    /\ ep' = [ep EXCEPT !.pc = IF ret THEN "process" ELSE "stopped"]
    /\ UNCHANGED <<ep_now, ep_calls>>

\* process_frame(frame) up to the call of backend_client.register_entry.
\* text: the validated plate text of the frame, NoPlate when a stage of the
\* detection found nothing.
EpProcessFrame(text) ==
    /\ ep.pc = "process"
    /\ LET n == ep.frame_count + 1
           repeat == text # NoPlate /\ ep.last_processed_plate = text
           since == IF repeat /\ ep.last_processed_time # NoTime
                    THEN ep_now - ep.last_processed_time ELSE NoTime
       IN
       IF n % FrameSkip # 0 \/ text = NoPlate \/ IsDuplicate(text, ep_now)
       THEN /\ ep' = [ep EXCEPT !.frame_count = n, !.pc = "read",
                               !.last_result = IF n % FrameSkip # 0 THEN "skipped"
                                               ELSE IF text = NoPlate THEN "nothing"
                                               ELSE "duplicate",
                               !.elapsed = IF n % FrameSkip # 0 \/ text = NoPlate
                                           THEN NoTime ELSE since]
            /\ UNCHANGED ep_calls
       ELSE /\ ep' = [ep EXCEPT !.frame_count = n, !.pc = "send",
                               !.last_processed_plate = text,
                               !.last_processed_time = ep_now,
                               !.last_result = IF repeat THEN "accepted_repeat"
                                               ELSE "accepted_new",
                               !.elapsed = since]
            /\ ep_calls' = Append(ep_calls,
                  [plate |-> text, at |-> ep_now, state |-> "pending"])
    /\ UNCHANGED ep_now

\* session.post(endpoint, json=payload, timeout=10) returns or raises; either
\* way process_frame returns its result and run() goes on to the next frame.
EpBackendReturns(ok) ==
    /\ ep.pc = "send"
    /\ ep_calls' = [ep_calls EXCEPT ![Len(ep_calls)].state =
                       IF ok THEN "answered" ELSE "failed"]
    /\ ep' = [ep EXCEPT !.pc = "read"]
    /\ UNCHANGED ep_now

EpAdvance(d) ==
    /\ ep.advances < MaxAdvances
    /\ ep_now' = ep_now + d
    /\ ep' = [ep EXCEPT !.advances = @ + 1]
    /\ UNCHANGED ep_calls

(***************************************************************************)
(* Part IV.  SlotOccupancyDetector: the ROI layout and the scoring cycle    *)
(***************************************************************************)
Floors == <<"A", "B">>
\* for car_cam in range(1, 6)
CarCamsPerFloor == 5
\* for bike_cam in range(1, 3)
BikeCamsPerFloor == 2
\* end_slot = start_slot + 4
CarSlotsPerCamera == 4
\* end_slot = start_slot + 8
BikeSlotsPerCamera == 8
\* occupancy_threshold: float = 0.4, in hundredths
OccupancyThreshold == 40

CamsPerFloor == CarCamsPerFloor + BikeCamsPerFloor

Min(a, b) == IF a <= b THEN a ELSE b

\* _calculate_slot_id with the type offset too narrow for 20 car slots.
CalculateSlotId_NarrowTypeOffset(floor, vehicle_type, slot_num) ==
    (IF floor = "A" THEN 0 ELSE 1000) + (IF vehicle_type = "CAR" THEN 0 ELSE 10) + slot_num

\* _calculate_slot_id(floor, vehicle_type, slot_num)
CalculateSlotId(floor, vehicle_type, slot_num) ==
    (IF floor = "A" THEN 0 ELSE 1000) + (IF vehicle_type = "CAR" THEN 0 ELSE 100) + slot_num

\* _generate_car_slot_rois with six-slot strides between cameras.
GenerateCarSlotRois_WideStride(camera_id, floor, cam_num) ==
    [i \in 1..CarSlotsPerCamera |->
        LET slot_num == (cam_num - 1) * 6 + i IN
        [slot_id |-> CalculateSlotId(floor, "CAR", slot_num),
         slot_code |-> <<floor, "C", slot_num>>,
         coordinates |-> <<50 + (i - 1) * 130, 100, 120, 200>>,
         vehicle_type |-> "CAR",
         camera_id |-> camera_id]]

\* _generate_car_slot_rois(camera_id, floor, cam_num): four slots in one row.
\* slot_code f"{floor}-C-{slot_num:02d}" is kept as its three parts.
GenerateCarSlotRois(camera_id, floor, cam_num) ==
    [i \in 1..CarSlotsPerCamera |->
        LET slot_num == (cam_num - 1) * CarSlotsPerCamera + i IN
        [slot_id |-> CalculateSlotId(floor, "CAR", slot_num),
         slot_code |-> <<floor, "C", slot_num>>,
         coordinates |-> <<50 + (i - 1) * 130, 100, 120, 200>>,
         vehicle_type |-> "CAR",
         camera_id |-> camera_id]]

\* _generate_bike_slot_rois(camera_id, floor, cam_num): two rows of four.
GenerateBikeSlotRois(camera_id, floor, cam_num) ==
    [i \in 1..BikeSlotsPerCamera |->
        LET slot_num == (cam_num - 1) * BikeSlotsPerCamera + i
            row == (i - 1) \div 4
            col == (i - 1) % 4
        IN
        [slot_id |-> CalculateSlotId(floor, "BIKE", slot_num),
         slot_code |-> <<floor, "B", slot_num>>,
         coordinates |-> <<30 + col * 70, 80 + row * (120 + 20), 60, 120>>,
         vehicle_type |-> "BIKE",
         camera_id |-> camera_id]]

\* _initialize_slot_layout: camera ids are handed out from 1, per floor first
\* the car cameras, then the bike cameras.
InitializeSlotLayout ==
    [camera_id \in 1..(Len(Floors) * CamsPerFloor) |->
        LET floor == Floors[((camera_id - 1) \div CamsPerFloor) + 1]
            k == ((camera_id - 1) % CamsPerFloor) + 1
        IN
        IF k <= CarCamsPerFloor
        THEN GenerateCarSlotRois(camera_id, floor, k)
        ELSE GenerateBikeSlotRois(camera_id, floor, k - CarCamsPerFloor)]

NoDetectorOp == [op |-> "none"]

\* No ROI configuration was saved yet.
NoFile == [written |-> FALSE]

InitSlots ==
    /\ camera_rois = InitializeSlotLayout
    /\ previous_statuses = EmptyDict
    /\ bg_subtractors = DOMAIN InitializeSlotLayout
    /\ sd_last = NoDetectorOp
    /\ scored = EmptyDict
    /\ roi_file = NoFile

\* A slot's image region and mask region: its pixel count (0 when the ROI lies
\* outside the frame), the share of foreground and of edge pixels in tenths,
\* and np.var of the region in hundreds.
Region(size, fg, edge, variance) ==
    [size |-> size, fg |-> fg, edge |-> edge, variance |-> variance]

\* The frames tried: each gives every ROI index a region.
FrameKinds == {"scenarioE", "boundary", "mixed", "cropped"}

RegionAt(kind, i) ==
    CASE kind = "scenarioE" -> Region(1, 6, 5, 5)
      [] kind = "boundary" -> IF i % 2 = 1 THEN Region(1, 10, 0, 0)
                                            ELSE Region(1, 10, 0, 1)
      [] kind = "mixed" -> IF i % 2 = 1 THEN Region(1, 10, 10, 40)
                                         ELSE Region(1, 0, 0, 0)
      [] OTHER -> Region(0, 0, 0, 0)

\* The occupancy test with the threshold value itself counted as occupied.
Occupied_AtThreshold(score) == score >= OccupancyThreshold

\* occupancy_score > self.occupancy_threshold
Occupied(score) == score > OccupancyThreshold

\* The score with the uniformity of the region, not its variance, as third term.
CalculateOccupancyScore_Uniformity(region) ==
    IF region.size = 0 THEN 0
    ELSE Min(4 * region.fg + 3 * region.edge + 3 * (10 - Min(region.variance, 10)), 100)

\* _calculate_occupancy_score, in hundredths: 0.4 * motion_score
\* + 0.3 * edge_score + 0.3 * min(color_variance / 1000, 1.0), capped at 1.0.
CalculateOccupancyScore(region) ==
    IF region.size = 0 THEN 0
    ELSE Min(4 * region.fg + 3 * region.edge + 3 * Min(region.variance, 10), 100)

\* _apply_background_subtraction(camera_id, frame), seen from ROI i: the
\* foreground its background model finds, and none without a model (a mask of
\* zeros).
ApplyBackgroundSubtraction(camera_id, kind, i) ==
    IF camera_id \in bg_subtractors THEN RegionAt(kind, i)
    ELSE [RegionAt(kind, i) EXCEPT !.fg = 0]

\* _check_slot_occupancy(frame, bg_mask, slot_roi); region is the ROI's part
\* of the frame and of the mask.
CheckSlotOccupancy(region, slot_roi) ==
    LET score == CalculateOccupancyScore(region) IN
    [slot_id |-> slot_roi.slot_id,
     is_occupied |-> Occupied(score),
     confidence |-> score]

\* A camera id that the generated layout does not use.
NewCamera == Len(Floors) * CamsPerFloor + 1

\* The cameras of the generated layout whose frames are scored.
ScoredCameras == {1, CarCamsPerFloor + 1}

\* _track_status_change(status) on the dictionary prev: the dictionary after
\* it, and whether the change was logged.
TrackStatusChange(prev, status) ==
    [statuses |-> [k \in DOMAIN prev \cup {status.slot_id} |->
                      IF k = status.slot_id THEN status ELSE prev[k]],
     logged |-> /\ status.slot_id \in DOMAIN prev
                /\ prev[status.slot_id].is_occupied # status.is_occupied]

\* The loop of detect_slot_occupancy over the camera's ROIs from index i on.
RECURSIVE CheckEach(_, _, _, _, _)
CheckEach(camera_id, rois, kind, i, acc) ==
    IF i > Len(rois) THEN acc
    ELSE LET region == ApplyBackgroundSubtraction(camera_id, kind, i)
             status == CheckSlotOccupancy(region, rois[i])
             t == TrackStatusChange(acc.previous_statuses, status)
         IN CheckEach(camera_id, rois, kind, i + 1,
                [previous_statuses |-> t.statuses,
                 regions |-> Append(acc.regions, region),
                 slot_statuses |-> Append(acc.slot_statuses, status),
                 changes |-> IF t.logged
                             THEN Append(acc.changes, status.slot_id)
                             ELSE acc.changes])

\* detect_slot_occupancy(camera_id, frame)
DetectSlotOccupancy(camera_id, kind) ==
    LET r == IF camera_id \in DOMAIN camera_rois
             THEN CheckEach(camera_id, camera_rois[camera_id], kind, 1,
                      [previous_statuses |-> previous_statuses, regions |-> <<>>,
                       slot_statuses |-> <<>>, changes |-> <<>>])
             ELSE [previous_statuses |-> previous_statuses, regions |-> <<>>,
                   slot_statuses |-> <<>>, changes |-> <<>>]
    IN
    /\ previous_statuses' = r.previous_statuses
    /\ sd_last' = [op |-> "detect", camera_id |-> camera_id, frame |-> kind,
                   regions |-> r.regions,
                   slot_statuses |-> r.slot_statuses, changes |-> r.changes]
    /\ scored' = [k \in DOMAIN scored
                        \cup {r.slot_statuses[j].slot_id : j \in DOMAIN r.slot_statuses} |->
                    IF \E j \in DOMAIN r.slot_statuses : r.slot_statuses[j].slot_id = k
                    THEN LET j == CHOOSE j \in DOMAIN r.slot_statuses :
                                      /\ r.slot_statuses[j].slot_id = k
                                      /\ \A m \in DOMAIN r.slot_statuses :
                                            r.slot_statuses[m].slot_id = k => m <= j
                         IN r.slot_statuses[j].is_occupied
                    ELSE scored[k]]
    /\ UNCHANGED <<camera_rois, bg_subtractors, roi_file>>

\* A JSON array (a Python list) with the items given, and tuple(l) and
\* list(t): a SlotROI holds its coordinates as a tuple, the file as a list.
JsonList(items) == [list |-> items]
Tuple(l) == l.list
ListOf(t) == JsonList(t)

\* One slot entry of a ROI configuration file.
SlotData(slot_id) ==
    [slot_id |-> slot_id, slot_code |-> <<"A", "C", slot_id>>,
     coordinates |-> JsonList(<<50, 100, 120, 200>>), vehicle_type |-> "CAR"]

\* A file that cannot be opened or parsed, and a file that json.load reads
\* with the value of config['cameras'] given.
Unreadable == [readable |-> FALSE]
Readable(camera_list) == [readable |-> TRUE, cameras |-> camera_list]

\* The configuration files tried.  One lists a slot under two cameras, of
\* which one is new; the last one has a camera entry without its 'slots' key.
Configs ==
    { Unreadable,
      Readable(<< [camera_id |-> 1, slots |-> <<SlotData(1), SlotData(2)>>] >>),
      Readable(<< [camera_id |-> 1, slots |-> <<SlotData(1)>>],
                  [camera_id |-> NewCamera, slots |-> <<SlotData(1)>>] >>),
      Readable(<< [camera_id |-> 1, slots |-> <<SlotData(3)>>],
                  [camera_id |-> CarCamsPerFloor + 1] >>) }

\* The loop of load_roi_config over config['cameras'] from index i on; a
\* malformed entry raises and ends the loop with what was loaded so far.
RECURSIVE LoadEach(_, _, _)
LoadEach(config, i, rois) ==
    IF i > Len(config) \/ "slots" \notin DOMAIN config[i] THEN rois
    ELSE LET camera_id == config[i].camera_id
             loaded == [j \in DOMAIN config[i].slots |->
                           [slot_id |-> config[i].slots[j].slot_id,
                            slot_code |-> config[i].slots[j].slot_code,
                            coordinates |-> Tuple(config[i].slots[j].coordinates),
                            vehicle_type |-> config[i].slots[j].vehicle_type,
                            camera_id |-> camera_id]]
         IN LoadEach(config, i + 1,
                [k \in DOMAIN rois \cup {camera_id} |->
                    IF k = camera_id THEN loaded ELSE rois[k]])

\* load_roi_config with the previous statuses dropped together with the ROIs.
LoadRoiConfig_DropsStatuses(config) ==
    /\ camera_rois' = IF ~config.readable THEN camera_rois
                      ELSE LoadEach(config.cameras, 1, EmptyDict)
    /\ previous_statuses' = EmptyDict
    /\ sd_last' = [op |-> "load"]
    /\ UNCHANGED <<scored, bg_subtractors, roi_file>>

\* load_roi_config(config_path)
LoadRoiConfig(config) ==
    /\ camera_rois' = IF ~config.readable THEN camera_rois
                      ELSE LoadEach(config.cameras, 1, EmptyDict)
    /\ sd_last' = [op |-> "load"]
    /\ UNCHANGED <<previous_statuses, scored, bg_subtractors, roi_file>>

\* The keys of a dict with integer keys, in ascending order.
RECURSIVE SortedKeys(_)
SortedKeys(keys) ==
    IF keys = {} THEN <<>>
    ELSE LET least == CHOOSE k \in keys : \A other \in keys : k <= other
         IN <<least>> \o SortedKeys(keys \ {least})

\* The config save_roi_config builds with the coordinates cut to x and y.
RoiDocument_CoordinatesXY(rois) ==
    LET camera_ids == SortedKeys(DOMAIN rois) IN
    [n \in DOMAIN camera_ids |->
        [camera_id |-> camera_ids[n],
         slots |-> [j \in DOMAIN rois[camera_ids[n]] |->
                      LET roi == rois[camera_ids[n]][j] IN
                      [slot_id |-> roi.slot_id,
                       slot_code |-> roi.slot_code,
                       coordinates |-> ListOf(SubSeq(roi.coordinates, 1, 2)),
                       vehicle_type |-> roi.vehicle_type]]]]

\* The value of config['cameras'] that save_roi_config builds from
\* self.camera_rois.  The cameras are listed by ascending id here; the dict
\* lists each camera once, so the order does not change what a load gives.
RoiDocument(rois) ==
    LET camera_ids == SortedKeys(DOMAIN rois) IN
    [n \in DOMAIN camera_ids |->
        [camera_id |-> camera_ids[n],
         slots |-> [j \in DOMAIN rois[camera_ids[n]] |->
                      LET roi == rois[camera_ids[n]][j] IN
                      [slot_id |-> roi.slot_id,
                       slot_code |-> roi.slot_code,
                       coordinates |-> ListOf(roi.coordinates),
                       vehicle_type |-> roi.vehicle_type]]]]

\* save_roi_config(config_path)
SaveRoiConfig ==
    /\ roi_file' = [written |-> TRUE, cameras |-> RoiDocument(camera_rois),
                    rois |-> camera_rois]
    /\ sd_last' = [op |-> "save"]
    /\ UNCHANGED <<camera_rois, previous_statuses, scored, bg_subtractors>>

\* load_roi_config(config_path) of the path save_roi_config wrote
LoadSavedRoiConfig ==
    /\ roi_file.written
    /\ LoadRoiConfig(Readable(roi_file.cameras))

\* A bike slot entry of a ROI configuration file.
BikeSlotData(slot_id) ==
    [slot_id |-> slot_id, slot_code |-> <<"B", "B", slot_id>>,
     coordinates |-> JsonList(<<30, 80, 60, 120>>), vehicle_type |-> "BIKE"]

\* The lists of slot entries and the camera entries of the configuration
\* files tried by the save/load cycle.
RoiSlotLists ==
    {<<>>, <<SlotData(1)>>, <<BikeSlotData(2)>>, <<SlotData(1), BikeSlotData(2)>>,
     <<BikeSlotData(2), SlotData(1)>>}

RoiCameraEntries ==
    {[camera_id |-> c, slots |-> l] : c \in {1, NewCamera}, l \in RoiSlotLists}

\* The configuration files of one or two camera entries.
RoiConfigs ==
    {Readable(<<e>>) : e \in RoiCameraEntries}
    \cup {Readable(<<e1, e2>>) : e1 \in RoiCameraEntries, e2 \in RoiCameraEntries}

(***************************************************************************)
(* Part V.  IndoorPipeline: spot states and occupancy changes               *)
(***************************************************************************)
\* the frames read by IndoorPipeline.run
MaxIndoorFrames == 10

Spots == {"A1", "A2"}

\* The parking spot definitions tried, as lists of spot ids.
SpotLists == {<<>>, <<"A1">>, <<"A1", "A2">>}

NoResult == [returned |-> "none"]

\* IndoorPipeline.__init__(config, parking_spots)
InitIndoor ==
    /\ ip = [parking_spots |-> <<>>, spot_states |-> EmptyDict,
             frame_count |-> 0, result |-> NoResult]
    /\ ip_seen = EmptyDict

\* set_parking_spots(spots)
SetParkingSpots(spots) ==
    /\ ip' = [ip EXCEPT !.parking_spots = spots,
                        !.spot_states = [k \in {spots[j] : j \in DOMAIN spots} |-> FALSE],
                        !.result = [returned |-> "configured"]]
    /\ UNCHANGED ip_seen

\* self.spot_states.get(spot_id, False)
SpotState(states, spot_id) ==
    IF spot_id \in DOMAIN states THEN states[spot_id] ELSE FALSE

\* The loop of process_frame over self.parking_spots from index i on;
\* occupied is the set of spots is_spot_occupied finds occupied in the frame.
RECURSIVE CheckSpots(_, _, _, _)
CheckSpots(spots, occupied, i, acc) ==
    IF i > Len(spots) THEN acc
    ELSE LET spot_id == spots[i]
             is_occupied == spot_id \in occupied
             changed == is_occupied # SpotState(acc.spot_states, spot_id)
         IN CheckSpots(spots, occupied, i + 1,
                [spot_states |-> IF changed
                                 THEN [k \in DOMAIN acc.spot_states \cup {spot_id} |->
                                          IF k = spot_id THEN is_occupied
                                          ELSE acc.spot_states[k]]
                                 ELSE acc.spot_states,
                 current_states |-> [k \in DOMAIN acc.current_states \cup {spot_id} |->
                                        IF k = spot_id THEN is_occupied
                                        ELSE acc.current_states[k]],
                 occupancy_changes |-> IF changed
                                       THEN Append(acc.occupancy_changes, spot_id)
                                       ELSE acc.occupancy_changes])

\* The payload of update_parking_status with the number of changes sent as
\* the number of occupied spots.
UpdateParkingStatus_CountsChanges(total_spots, occupied_spots, available_spots, changes) ==
    [total_spots |-> total_spots,
     occupied_spots |-> Len(changes),
     available_spots |-> available_spots,
     changes |-> changes]

\* BackendClient.update_parking_status(total_spots, occupied_spots,
\* available_spots, changes): the payload posted to /api/parking-status.
UpdateParkingStatus(total_spots, occupied_spots, available_spots, changes) ==
    [total_spots |-> total_spots,
     occupied_spots |-> occupied_spots,
     available_spots |-> available_spots,
     changes |-> changes]

\* process_frame(frame); occupied is the set of spots is_spot_occupied finds
\* occupied in the frame, backend_ok whether the POST of the update succeeds
\* (it raises otherwise, and process_frame records the error in its result).
ProcessFrame(occupied, backend_ok) ==
    /\ ip.frame_count < MaxIndoorFrames
    /\ LET n == ip.frame_count + 1 IN
       IF n % FrameSkip # 0
       THEN /\ ip' = [ip EXCEPT !.frame_count = n, !.result = [returned |-> "skipped"]]
            /\ UNCHANGED ip_seen
       ELSE IF ip.parking_spots = <<>>
       THEN /\ ip' = [ip EXCEPT !.frame_count = n, !.result = [returned |-> "no_spots"]]
            /\ UNCHANGED ip_seen
       ELSE LET r == CheckSpots(ip.parking_spots, occupied, 1,
                        [spot_states |-> ip.spot_states,
                         current_states |-> EmptyDict,
                         occupancy_changes |-> <<>>])
                total_spots == Len(ip.parking_spots)
                occupied_spots == Cardinality({k \in DOMAIN r.current_states :
                                                  r.current_states[k]})
                available_spots == total_spots - occupied_spots
                update_sent == r.occupancy_changes # <<>>
            IN /\ ip' = [ip EXCEPT !.frame_count = n,
                                   !.spot_states = r.spot_states,
                                   !.result = [returned |-> "result",
                                               total_spots |-> total_spots,
                                               occupied_spots |-> occupied_spots,
                                               available_spots |-> available_spots,
                                               spot_states |-> r.current_states,
                                               occupancy_changes |-> r.occupancy_changes,
                                               update_sent |-> update_sent,
                                               sent |-> IF update_sent
                                                        THEN <<UpdateParkingStatus(
                                                                 total_spots, occupied_spots,
                                                                 available_spots,
                                                                 r.occupancy_changes)>>
                                                        ELSE <<>>,
                                               backend |-> IF ~update_sent THEN "not_called"
                                                           ELSE IF backend_ok THEN "response"
                                                           ELSE "error"]]
               /\ ip_seen' = [k \in DOMAIN ip_seen \cup DOMAIN r.current_states |->
                                 IF k \in DOMAIN r.current_states
                                 THEN r.current_states[k] ELSE ip_seen[k]]

(***************************************************************************)
(* Part VI.  Functions of one call: scoring, plate cleaning, OCR attempts   *)
(***************************************************************************)
NoCall == [op |-> "none"]

InitCalc == calc = NoCall

\* The shares, in tenths, and the variances, in hundreds, that are tried.
Tenths == {0, 4, 6, 10}

Variances == {0, 5, 10, 40}

Regions == {Region(1, fg, edge, variance) :
               fg \in Tenths, edge \in Tenths, variance \in Variances}

\* _calculate_occupancy_score called on two regions
ScoreRegions(lo, hi) ==
    calc' = [op |-> "score", lo |-> lo, hi |-> hi,
             score_lo |-> CalculateOccupancyScore(lo),
             score_hi |-> CalculateOccupancyScore(hi)]

\* the longest raw text that is cleaned
MaxTextLen == 4

\* The characters texts are made of; "sz" stands for the one letter whose
\* upper() is the two letters SS.
PlateChars == {"a", "B", "7", " ", "\t", "-", "sz"}

Texts == UNION {[1..n -> PlateChars] : n \in 0..MaxTextLen}

\* [A-Za-z0-9]
IsAlnum(c) == c \in {"a", "A", "B", "S", "7"}

\* [A-Z0-9]
IsUpperAlnum(c) == c \in {"A", "B", "S", "7"}

\* \s
IsSpace(c) == c \in {" ", "\t"}

\* [A-Za-z0-9\s]
IsAlnumOrSpace(c) == IsAlnum(c) \/ IsSpace(c)

\* str.upper() of one character
Upper(c) ==
    CASE c = "a" -> <<"A">>
      [] c = "sz" -> <<"S", "S">>
      [] OTHER -> <<c>>

\* str.upper()
RECURSIVE UpperAll(_)
UpperAll(text) ==
    IF text = <<>> THEN <<>> ELSE Upper(Head(text)) \o UpperAll(Tail(text))

\* str.strip()
RECURSIVE Strip(_)
Strip(text) ==
    IF text = <<>> THEN <<>>
    ELSE IF IsSpace(Head(text)) THEN Strip(Tail(text))
    ELSE IF IsSpace(text[Len(text)]) THEN Strip(SubSeq(text, 1, Len(text) - 1))
    ELSE text

\* re.sub(r'\s+', ' ', text)
RECURSIVE CollapseSpaces(_)
CollapseSpaces(text) ==
    IF text = <<>> THEN <<>>
    ELSE IF IsSpace(Head(text))
         THEN IF Len(text) > 1 /\ IsSpace(text[2])
              THEN CollapseSpaces(Tail(text))
              ELSE <<" ">> \o CollapseSpaces(Tail(text))
         ELSE <<Head(text)>> \o CollapseSpaces(Tail(text))

\* The ANPR cleaner with the spaces collapsed before the other characters
\* are removed.
CleanPlateTextAnpr_CollapseFirst(text) ==
    UpperAll(SelectSeq(CollapseSpaces(Strip(text)), IsAlnumOrSpace))

\* LicensePlateRecognizer._clean_plate_text(text)
CleanPlateTextAnpr(text) ==
    CollapseSpaces(Strip(UpperAll(SelectSeq(text, IsAlnumOrSpace))))

\* PlateOCR.clean_plate_text(text); the corrections table is never applied.
CleanPlateText(text) == SelectSeq(UpperAll(text), IsUpperAlnum)

\* _clean_plate_text called on a text and on its own result
CleanTwiceAnpr(x) ==
    calc' = [op |-> "clean_anpr", x |-> x,
             once |-> CleanPlateTextAnpr(x),
             twice |-> CleanPlateTextAnpr(CleanPlateTextAnpr(x))]

\* clean_plate_text called on a text and on its own result
CleanTwice(x) ==
    calc' = [op |-> "clean_ocr", x |-> x,
             once |-> CleanPlateText(x),
             twice |-> CleanPlateText(CleanPlateText(x))]

\* OCR_CONFIDENCE_THRESHOLD = 0.7, in tenths
OcrConfidenceThreshold == 7

\* The texts the OCR reader finds: one that is cleaned to nothing, two plates
\* of valid format, one that is too long and one without a digit.
OcrTexts ==
    { <<"-">>,
      <<"a", "B", "7", "7">>,
      <<"a", "B", "-", "7", "7", "7">>,
      <<"a", "B", "7", "7", "7", "7", "7", "7", "7">>,
      <<"B", "B", "B", "B", "B">> }

Found(text, conf) == [text |-> text, conf |-> conf]

\* The lists self.reader.readtext returns: texts with their confidence in
\* tenths.
Findings ==
    {<<>>}
    \cup {<<Found(text, conf)>> : text \in OcrTexts, conf \in {5, 9}}
    \cup { <<Found(<<"a", "B", "7", "7", "7", "7", "7", "7", "7">>, 5),
             Found(<<"a", "B", "7", "7">>, 9)>>,
           <<Found(<<"a", "B", "7", "7">>, 7),
             Found(<<"a", "B", "-", "7", "7", "7">>, 9)>> }

\* One attempt of the reader: it raises, or it returns a list.
OcrResults ==
    {[raises |-> TRUE, found |-> <<>>]}
    \cup {[raises |-> FALSE, found |-> f] : f \in Findings}

\* max(seq, key) of Python, keys[i] being the key of seq[i]: the first
\* element with the greatest key.
FirstMax(seq, keys) ==
    seq[CHOOSE i \in DOMAIN seq :
            /\ \A j \in DOMAIN seq : keys[j] <= keys[i]
            /\ \A j \in 1..(i - 1) : keys[j] < keys[i]]

MeetsThreshold(found) == found.conf >= OcrConfidenceThreshold

\* PlateOCR.read_text(plate_image, preprocess).  None and the empty text are
\* both written <<>>: every caller tests the result for truth only.
ReadText(results) ==
    IF results.raises THEN <<>>
    ELSE LET valid_results == SelectSeq(results.found, MeetsThreshold) IN
         IF valid_results = <<>> THEN <<>>
         ELSE CleanPlateText(FirstMax(valid_results,
                  [i \in DOMAIN valid_results |-> valid_results[i].conf]).text)

NonEmpty(text) == text # <<>>

\* PlateOCR.read_with_multiple_attempts(plate_image); r1, r2, r3 are what the
\* reader finds on the preprocessed, the raw and the contrast-enhanced image.
ReadWithMultipleAttempts(r1, r2, r3) ==
    LET attempts == SelectSeq(<<ReadText(r1), ReadText(r2), ReadText(r3)>>, NonEmpty)
    IN IF attempts = <<>> THEN <<>> ELSE FirstMax(attempts, [i \in DOMAIN attempts |-> Len(attempts[i])])

\* PlateOCR.validate_plate_format(text) without a pattern
ValidatePlateFormat(text) ==
    /\ text # <<>>
    /\ 4 <= Len(text) /\ Len(text) <= 8
    /\ \E i \in DOMAIN text : text[i] = "7"
    /\ \E i \in DOMAIN text : text[i] \in {"a", "A", "B", "S"}

\* Step 3 of EntryPipeline.process_frame: the OCR attempts, then the format
\* validation of the text they returned.
ReadPlate(r1, r2, r3) ==
    LET plate_text == ReadWithMultipleAttempts(r1, r2, r3) IN
    calc' = [op |-> "ocr", results |-> <<r1, r2, r3>>,
             plate_text |-> plate_text,
             accepted |-> IF ValidatePlateFormat(plate_text) THEN plate_text ELSE <<>>]

Roles == {"ENTRY", "EXIT", "INDOOR"}

\* What detect_vehicles finds in a frame: for each vehicle, whether
\* extract_plate_from_vehicle finds a plate on it.
VehicleLists == UNION {[1..n -> BOOLEAN] : n \in 0..2}

\* Which of entry_callback, exit_callback and occupancy_callback are set.
CallbackSets == SUBSET Roles

\* The callback _process_frame calls for a detection of a camera with this
\* role: the first branch of its if/elif chain whose role matches and whose
\* callback is set.
CallbackFor(role, callbacks) == IF role \in callbacks THEN <<role>> ELSE <<>>

RECURSIVE CallbacksFor(_, _, _)
CallbacksFor(role, callbacks, n) ==
    IF n = 0 THEN <<>>
    ELSE CallbacksFor(role, callbacks, n - 1) \o CallbackFor(role, callbacks)

\* CameraManager._process_frame(camera_id, frame) for a camera of the given
\* role: the frame goes to the vehicle detector, every vehicle found to the
\* plate recognizer, and every detection to the callback of the role.
CmProcessFrame(role, vehicles, callbacks) ==
    calc' = [op |-> "process_frame", role |-> role, vehicles |-> vehicles,
             callbacks |-> callbacks,
             frame_to |-> IF vehicles = <<>>
                          THEN {"vehicle_detector"}
                          ELSE {"vehicle_detector", "plate_recognizer"},
             called |-> CallbacksFor(role, callbacks, Len(vehicles))]

(***************************************************************************)
(* Part VII.  The backend's entry and exit routers over the database       *)
(*            (parking-backend/app/routers/entry.py, exit.py)              *)
(***************************************************************************)
\* requests handled over a run
MaxRequests == 3
\* the last value of datetime.utcnow(), in seconds
MaxDbTime == 90
\* int(duration.total_seconds() / 60)
SecondsPerMinute == 60

\* None in a column or argument that otherwise holds a string
Null == "None"
\* seconds that pass between two requests
Elapses == {45}
\* vehicle_type values of a request; TRUCK is not a supported one
RequestVehicleTypes == {"CAR", "BIKE", "TRUCK"}
\* preferred_floor values of an entry request
PreferredFloors == {Null, "A", "B"}
\* exit_data.exit_time of an exit request: <<>> is None
ExitData == {<<>>, <<0>>}

\* The plates of the vehicles that come to the gates.
DbPlates == Plates \cup {"DL03EF9012"}

\* Slot.generate_slot_code(floor_name, slot_type, slot_number): the parts of
\* the code, "A-C-01" being <<"A", "C", 1>>.
GenerateSlotCode(floor_name, slot_type, slot_number) ==
    <<floor_name, IF slot_type = "CAR" THEN "C" ELSE "B", slot_number>>

\* The seeded slots table: per floor the car slots, then the bike slots.
\* Floor A has one car and two bike slots, floor B one of each.
SeedSlots ==
    <<[floor |-> "A", slot_code |-> GenerateSlotCode("A", "CAR", 1), slot_type |-> "CAR"],
      [floor |-> "A", slot_code |-> GenerateSlotCode("A", "BIKE", 1), slot_type |-> "BIKE"],
      [floor |-> "A", slot_code |-> GenerateSlotCode("A", "BIKE", 2), slot_type |-> "BIKE"],
      [floor |-> "B", slot_code |-> GenerateSlotCode("B", "CAR", 1), slot_type |-> "CAR"],
      [floor |-> "B", slot_code |-> GenerateSlotCode("B", "BIKE", 1), slot_type |-> "BIKE"]>>

\* The order of strings, on the letters of floor names and slot codes.
LetterRank(letter) == CHOOSE n \in 1..3 : <<"A", "B", "C">>[n] = letter

\* Whether the slot code a sorts before the slot code b.
CodeBefore(a, b) ==
    \/ LetterRank(a[1]) < LetterRank(b[1])
    \/ a[1] = b[1] /\ LetterRank(a[2]) < LetterRank(b[2])
    \/ a[1] = b[1] /\ a[2] = b[2] /\ a[3] < b[3]

\* Whether row a sorts before row b under order_by(Floor.name, Slot.slot_code).
SlotBefore(a, b) ==
    \/ LetterRank(a.floor) < LetterRank(b.floor)
    \/ a.floor = b.floor /\ CodeBefore(a.slot_code, b.slot_code)

RECURSIVE SortSlots(_)
SortSlots(ids) ==
    IF ids = {} THEN <<>>
    ELSE LET first == CHOOSE id \in ids :
                         \A other \in ids \ {id} : SlotBefore(SeedSlots[id], SeedSlots[other])
         IN <<first>> \o SortSlots(ids \ {first})

\* The slot ids in the order of order_by(Floor.name, Slot.slot_code).
SlotsByFloorAndCode == SortSlots(DOMAIN SeedSlots)

InitBackend ==
    /\ db_tickets = <<>>
    /\ db_slots = [id \in DOMAIN SeedSlots |->
                     [floor |-> SeedSlots[id].floor,
                      slot_code |-> SeedSlots[id].slot_code,
                      slot_type |-> SeedSlots[id].slot_type,
                      status |-> "FREE",
                      current_plate |-> Null]]
    /\ db_floors = [f \in {Floors[i] : i \in DOMAIN Floors} |->
                      [occupied_car_slots |-> 0, occupied_bike_slots |-> 0]]
    /\ db_events = <<>>
    /\ db_now = 0
    /\ response = [n |-> 0, request |-> [op |-> "none"], status |-> 0,
                   body |-> [detail |-> "none"]]

\* int(x / d) for d > 0: the quotient truncated toward zero.
TruncDiv(x, d) == IF x >= 0 THEN x \div d ELSE 0 - ((0 - x) \div d)

\* The query for a plate's tickets with the status compared to CLOSED.
ActiveTicketIds_ClosedOnes(tickets, plate) ==
    {id \in DOMAIN tickets : /\ tickets[id].plate_number = plate
                             /\ tickets[id].status = "CLOSED"}

\* The ids of the ACTIVE tickets of a plate.
ActiveTicketIds(tickets, plate) ==
    {id \in DOMAIN tickets : /\ tickets[id].plate_number = plate
                             /\ tickets[id].status = "ACTIVE"}

\* The handler answers with an HTTP status and a body.
Respond(request, status, body) ==
    response' = [n |-> response.n + 1, request |-> request,
                 status |-> status, body |-> body]

\* raise HTTPException(status) with nothing committed: the rows stay as they
\* were (db.rollback() undoes what the session changed).
Rejected(request, status, detail) ==
    /\ Respond(request, status, [detail |-> detail])
    /\ UNCHANGED <<db_tickets, db_slots, db_floors, db_events, db_now>>

\* find_optimal_slot with the slots filtered by type only, not by status.
FindOptimalSlot_IgnoresStatus(slots, vehicle_type, preferred_floor) ==
    LET slot_type == IF vehicle_type = "CAR" THEN "CAR" ELSE "BIKE"
        OfType(id) == slots[id].slot_type = slot_type
        OnPreferred(id) == OfType(id) /\ (preferred_floor # Null => slots[id].floor = preferred_floor)
        OnOther(id) == OfType(id) /\ slots[id].floor # preferred_floor
        available == SelectSeq(SlotsByFloorAndCode, OnPreferred)
        alternative == SelectSeq(SlotsByFloorAndCode, OnOther)
    IN  IF available # <<>> THEN <<Head(available)>>
        ELSE IF preferred_floor # Null /\ alternative # <<>> THEN <<Head(alternative)>>
        ELSE <<>>

\* SmartSlotAssigner.find_optimal_slot(db, vehicle_type, preferred_floor):
\* <<>> for None, else <<slot id>>.
FindOptimalSlot(slots, vehicle_type, preferred_floor) ==
    LET slot_type == IF vehicle_type = "CAR" THEN "CAR" ELSE "BIKE"
        IsFree(id) == slots[id].slot_type = slot_type /\ slots[id].status = "FREE"
        OnPreferred(id) == IsFree(id) /\ (preferred_floor # Null => slots[id].floor = preferred_floor)
        OnOther(id) == IsFree(id) /\ slots[id].floor # preferred_floor
        available == SelectSeq(SlotsByFloorAndCode, OnPreferred)
        alternative == SelectSeq(SlotsByFloorAndCode, OnOther)
    IN  IF available # <<>> THEN <<Head(available)>>
        ELSE IF preferred_floor # Null /\ alternative # <<>> THEN <<Head(alternative)>>
        ELSE <<>>

\* EventLog.log_entry_event(slot_id, license_plate, vehicle_type, ...)
LogEntryEvent(slot_id, license_plate, vehicle_type) ==
    [event_type |-> "entry", slot_id |-> slot_id,
     license_plate |-> license_plate, vehicle_type |-> vehicle_type]

\* EventLog.log_exit_event(cls, slot_id, license_plate, vehicle_type,
\* camera_id=None) called with the keyword arguments kwargs: a call that
\* leaves out a parameter without default raises TypeError.
LogExitEventRequired == {"slot_id", "license_plate", "vehicle_type"}

LogExitEvent(kwargs) ==
    IF LogExitEventRequired \subseteq DOMAIN kwargs
    THEN [raises |-> FALSE,
          row |-> [event_type |-> "exit", slot_id |-> kwargs.slot_id,
                   license_plate |-> kwargs.license_plate,
                   vehicle_type |-> kwargs.vehicle_type]]
    ELSE [raises |-> TRUE]

\* POST /entry-events: create_entry_event(ticket_data, preferred_floor, db),
\* which answers 201 with the new ticket.
CreateEntryEvent(ticket_data, preferred_floor) ==
    LET request == [op |-> "entry", license_plate |-> ticket_data.license_plate,
                    vehicle_type |-> ticket_data.vehicle_type,
                    preferred_floor |-> preferred_floor]
        optimal_slot == FindOptimalSlot(db_slots, ticket_data.vehicle_type,
                                        preferred_floor)
    IN
    /\ response.n < MaxRequests
    /\ IF ticket_data.vehicle_type \notin {"CAR", "BIKE"}
       THEN Rejected(request, 400, "vehicle type")
       ELSE IF ActiveTicketIds(db_tickets, ticket_data.license_plate) # {}
       THEN Rejected(request, 400, "already has active ticket")
       ELSE IF optimal_slot = <<>>
       THEN \* the count of the slots of the type: for a car
            \* filter(Slot.slot_type == SlotType.CAR), for a bike
            \* filter(SlotType.BIKE), which is no SQL criterion and raises
            IF ticket_data.vehicle_type = "CAR"
            THEN IF \A id \in DOMAIN db_slots : db_slots[id].slot_type # "CAR"
                 THEN Rejected(request, 404, "no slots configured")
                 ELSE Rejected(request, 503, "no available slots")
            ELSE Rejected(request, 500, "failed to process entry")
       ELSE LET slot_id == optimal_slot[1]
                floor == db_slots[slot_id].floor
                new_ticket == [plate_number |-> ticket_data.license_plate,
                               vehicle_type |-> ticket_data.vehicle_type,
                               slot_id |-> slot_id,
                               entry_time |-> db_now,
                               exit_time |-> <<>>,
                               status |-> "ACTIVE"]
            IN  /\ db_tickets' = Append(db_tickets, new_ticket)
                /\ db_slots' = [db_slots EXCEPT
                                  ![slot_id].status = "OCCUPIED",
                                  ![slot_id].current_plate = ticket_data.license_plate]
                /\ db_floors' =
                     IF ticket_data.vehicle_type = "CAR"
                     THEN [db_floors EXCEPT ![floor].occupied_car_slots = @ + 1]
                     ELSE [db_floors EXCEPT ![floor].occupied_bike_slots = @ + 1]
                /\ db_events' = Append(db_events,
                                       LogEntryEvent(slot_id, ticket_data.license_plate,
                                                     ticket_data.vehicle_type))
                /\ Respond(request, 201, [id |-> Len(db_tickets) + 1,
                                          slot_id |-> slot_id,
                                          status |-> "ACTIVE"])
                /\ UNCHANGED db_now

\* create_exit_event(ticket_id, exit_data, db), answering the request given.
CloseTicket(request, ticket_id, exit_data) ==
    IF ~(ticket_id \in DOMAIN db_tickets /\ db_tickets[ticket_id].status = "ACTIVE")
    THEN Rejected(request, 404, "active ticket not found")
    ELSE LET ticket == db_tickets[ticket_id] IN
         IF ticket.slot_id \notin DOMAIN db_slots
         THEN Rejected(request, 404, "slot not found")
         ELSE LET exit_time == IF exit_data # <<>> THEN exit_data[1] ELSE db_now
                  parking_duration_minutes ==
                      TruncDiv(exit_time - ticket.entry_time, SecondsPerMinute)
                  exit_log == LogExitEvent([slot_id |-> ticket.slot_id,
                                            license_plate |-> ticket.plate_number])
              IN  IF exit_log.raises
                  THEN \* except Exception: db.rollback(), HTTP 500
                       Rejected(request, 500, "failed to create exit event")
                  ELSE /\ db_tickets' = [db_tickets EXCEPT
                                           ![ticket_id].exit_time = <<exit_time>>,
                                           ![ticket_id].status = "CLOSED"]
                       /\ db_slots' = [db_slots EXCEPT
                                         ![ticket.slot_id].status = "FREE",
                                         ![ticket.slot_id].current_plate = Null]
                       /\ db_events' = Append(db_events, exit_log.row)
                       /\ Respond(request, 200,
                                  [id |-> ticket_id, slot_id |-> ticket.slot_id,
                                   status |-> "CLOSED",
                                   parking_duration_minutes |-> parking_duration_minutes])
                       /\ UNCHANGED <<db_floors, db_now>>

\* POST /exit-events/{ticket_id}
CreateExitEvent(ticket_id, exit_data) ==
    /\ response.n < MaxRequests
    /\ CloseTicket([op |-> "exit", ticket_id |-> ticket_id, exit_data |-> exit_data],
                   ticket_id, exit_data)

\* POST /exit-events/license/{license_plate}:
\* create_exit_event_by_license(license_plate, exit_data, db).  The query has
\* no order_by: first() is any of the plate's ACTIVE tickets.
CreateExitEventByLicense(license_plate, exit_data) ==
    LET request == [op |-> "exit_by_license", license_plate |-> license_plate,
                    exit_data |-> exit_data]
        active == ActiveTicketIds(db_tickets, license_plate)
    IN
    /\ response.n < MaxRequests
    /\ IF active = {}
       THEN Rejected(request, 404, "no active ticket found")
       ELSE \E ticket_id \in active : CloseTicket(request, ticket_id, exit_data)

\* Time passes between two requests.
PassTime(elapsed) ==
    /\ db_now + elapsed <= MaxDbTime
    /\ db_now' = db_now + elapsed
    /\ UNCHANGED <<db_tickets, db_slots, db_floors, db_events, response>>

(***************************************************************************)
(* Specifications.                                                         *)
(***************************************************************************)
Init ==
    /\ InitSup /\ InitDisp /\ InitPipe /\ InitSlots /\ InitIndoor /\ InitCalc
    /\ InitBackend

\* The supervisor's operations and the threads, with the clock standing still
\* (the frame rate of a camera then makes no difference: one rate is used).
NextSup ==
    \/ \E c \in CamIds, a \in BOOLEAN : AddCamera(c, TicksPerSecond, a) /\ UNCHANGED exceptSup
    \/ \E c \in CamIds, ok \in BOOLEAN : StartCamera(c, ok) /\ UNCHANGED exceptSup
    \/ \E okSet \in SUBSET CamIds : StartAll(okSet) /\ UNCHANGED exceptSup
    \/ \E c \in CamIds : StopCamera(c) /\ UNCHANGED exceptSup
    \/ \E c \in CamIds : RemoveCamera(c) /\ UNCHANGED exceptSup
    \/ StopAll /\ UNCHANGED exceptSup
    \/ StopReturn /\ UNCHANGED exceptSup
    \/ \E w \in WorkerIds : WorkerStep(w) /\ UNCHANGED exceptSup

SpecSup == Init /\ [][NextSup]_vars

\* One camera's stream over time: the camera is registered once, started when
\* it is not started and stopped when it is; its threads; the clock.
NextWorker ==
    \/ \E fps \in FpsSet : 1 \notin DOMAIN cameras /\ AddCamera(1, fps, TRUE) /\ UNCHANGED exceptSup
    \/ 1 \in DOMAIN cameras /\ 1 \notin DOMAIN processing_threads /\ StartCamera(1, TRUE) /\ UNCHANGED exceptSup
    \/ 1 \in DOMAIN processing_threads /\ StopCamera(1) /\ UNCHANGED exceptSup
    \/ StopReturn /\ UNCHANGED exceptSup
    \/ \E w \in WorkerIds : WorkerStep(w) /\ UNCHANGED exceptSup
    \/ Tick /\ UNCHANGED exceptSup

SpecWorker == Init /\ [][NextWorker]_vars

\* Threads are scheduled fairly, and reads and frame processing return.
SpecWorkerFair == SpecWorker /\ \A w \in WorkerIds : WF_supVars(WorkerStep(w))

\* The callbacks of two camera threads and the clock.
NextDisp ==
    \/ \E t \in HandlerIds, det \in Detections : HandleBegin(t, det) /\ UNCHANGED exceptDisp
    \/ \E t \in HandlerIds : HandleFinish(t) /\ UNCHANGED exceptDisp
    \/ \E t \in HandlerIds, det \in IndoorDetections : HandleOccupancy(t, det) /\ UNCHANGED exceptDisp
    \/ ClockTick /\ UNCHANGED exceptDisp

SpecDisp == Init /\ [][NextDisp]_vars

\* The callbacks, the clock and the statistics reset of the service.
NextStats ==
    \/ NextDisp
    \/ ResetStatistics /\ UNCHANGED exceptDisp

SpecStats == Init /\ [][NextStats]_vars

\* The entry pipeline's run loop against its backend.
NextPipe ==
    \/ \E ret \in BOOLEAN : EpRead(ret) /\ UNCHANGED exceptPipe
    \/ \E text \in Plates \cup {NoPlate} : EpProcessFrame(text) /\ UNCHANGED exceptPipe
    \/ \E ok \in BOOLEAN : EpBackendReturns(ok) /\ UNCHANGED exceptPipe
    \/ \E d \in EpSteps : EpAdvance(d) /\ UNCHANGED exceptPipe

SpecPipe == Init /\ [][NextPipe]_vars

\* The slot detector: frames of the scored cameras and ROI configurations.
NextSlots ==
    \/ \E c \in ScoredCameras, kind \in FrameKinds :
          DetectSlotOccupancy(c, kind) /\ UNCHANGED exceptSlots
    \/ DetectSlotOccupancy(NewCamera, "scenarioE") /\ UNCHANGED exceptSlots
    \/ \E config \in Configs :
          LoadRoiConfig(config) /\ UNCHANGED exceptSlots

SpecSlots == Init /\ [][NextSlots]_vars

\* The detector's ROI configuration is loaded, saved and loaded back.
NextRoi ==
    \/ \E config \in RoiConfigs : LoadRoiConfig(config) /\ UNCHANGED exceptSlots
    \/ SaveRoiConfig /\ UNCHANGED exceptSlots
    \/ LoadSavedRoiConfig /\ UNCHANGED exceptSlots

SpecRoi == Init /\ [][NextRoi]_vars

\* The two places where occupancy changes are found: the slot detector on
\* one camera, and the indoor pipeline.
NextChanges ==
    \/ \E kind \in {"mixed", "scenarioE"} :
          DetectSlotOccupancy(1, kind) /\ UNCHANGED exceptSlots
    \/ \E spots \in SpotLists :
          SetParkingSpots(spots) /\ UNCHANGED exceptIndoor
    \/ \E occupied \in SUBSET Spots, backend_ok \in BOOLEAN :
          ProcessFrame(occupied, backend_ok) /\ UNCHANGED exceptIndoor

SpecChanges == Init /\ [][NextChanges]_vars

\* The occupancy score on pairs of regions that differ in one measure.
NextScore ==
    \/ \E lo \in Regions, hi \in Regions :
          /\ lo.fg < hi.fg /\ lo.edge = hi.edge /\ lo.variance = hi.variance
          /\ ScoreRegions(lo, hi) /\ UNCHANGED exceptCalc
    \/ \E lo \in Regions, hi \in Regions :
          /\ lo.fg = hi.fg /\ lo.edge < hi.edge /\ lo.variance = hi.variance
          /\ ScoreRegions(lo, hi) /\ UNCHANGED exceptCalc
    \/ \E lo \in Regions, hi \in Regions :
          /\ lo.fg = hi.fg /\ lo.edge = hi.edge /\ lo.variance < hi.variance
          /\ ScoreRegions(lo, hi) /\ UNCHANGED exceptCalc

SpecScore == Init /\ [][NextScore]_vars

\* The two plate cleaners, each called once on any text up to the length bound.
NextClean ==
    \/ \E x \in Texts : calc = NoCall /\ CleanTwiceAnpr(x) /\ UNCHANGED exceptCalc
    \/ \E x \in Texts : calc = NoCall /\ CleanTwice(x) /\ UNCHANGED exceptCalc

SpecClean == Init /\ [][NextClean]_vars

\* One plate crop read by the three OCR attempts.
NextOcr ==
    \/ \E r1 \in OcrResults, r2 \in OcrResults, r3 \in OcrResults :
          calc = NoCall /\ ReadPlate(r1, r2, r3) /\ UNCHANGED exceptCalc

SpecOcr == Init /\ [][NextOcr]_vars

\* One frame that passed the throttle gate, of a camera of any role.
NextRoute ==
    \/ \E role \in Roles, vehicles \in VehicleLists, callbacks \in CallbackSets :
          calc = NoCall /\ CmProcessFrame(role, vehicles, callbacks) /\ UNCHANGED exceptCalc

SpecRoute == Init /\ [][NextRoute]_vars

\* The backend handles entry and exit requests one at a time.
NextBackend ==
    \/ \E plate \in DbPlates, vehicle_type \in RequestVehicleTypes,
          preferred_floor \in PreferredFloors :
          CreateEntryEvent([license_plate |-> plate, vehicle_type |-> vehicle_type],
                           preferred_floor)
          /\ UNCHANGED exceptBackend
    \/ \E ticket_id \in 1..Cardinality(DbPlates), exit_data \in ExitData :
          CreateExitEvent(ticket_id, exit_data) /\ UNCHANGED exceptBackend
    \/ \E plate \in DbPlates, exit_data \in ExitData :
          CreateExitEventByLicense(plate, exit_data) /\ UNCHANGED exceptBackend
    \/ \E elapsed \in Elapses : PassTime(elapsed) /\ UNCHANGED exceptBackend

SpecBackend == Init /\ [][NextBackend]_vars

(***************************************************************************)
(* Properties of the stream supervisor.                                    *)
(***************************************************************************)
Running(w) == threads[w].pc \notin {"unborn", "done"}
WorkersOf(c) == {w \in WorkerIds : threads[w].cam = c /\ Running(w)}

\* C1: after any sequence of addCamera, start, startAll, stop, stopAll and
\* removeCamera calls, at most one worker is running for any camera id.
C1_AtMostOneWorker ==
    \A c \in CamIds : Cardinality(WorkersOf(c)) <= 1

\* C7: when stop(id) has returned, every capture opened for camera id is
\* released and id has no worker, capture or flag entry, whether the join
\* ended or timed out.
C7_StopReleasesCapture ==
    lastOp.kind = "stop" =>
        /\ lastOp.cam \notin DOMAIN processing_threads
        /\ lastOp.cam \notin DOMAIN capture_objects
        /\ lastOp.cam \notin DOMAIN stop_flags
        /\ \A w \in WorkerIds : threads[w].cam = lastOp.cam => caps[w] # "open"

\* C8: once a worker's cancellation flag is set, the worker starts on at most
\* one more frame, and it terminates.  (A flag that is set stays set and a
\* thread that returned stays so: eventually every flagged worker has ended.)
C8_StopTerminatesWorker ==
    /\ [](\A w \in WorkerIds : hist[w].after <= 1)
    /\ <>[](\A w \in WorkerIds : events[w] => threads[w].pc = "done")

\* A worker that took one more frame after its flag was set, and then ended.
C8_Witness ==
    \E w \in WorkerIds :
        events[w] /\ threads[w].pc = "done" /\ hist[w].after = 1

\* In this step thread w got a frame from cap.read().
GotFrame(w) ==
    /\ threads[w].pc = "read"
    /\ threads'[w].pc # "read"
    /\ threads'[w].last = threads[w].cur

\* C9: consecutive processed frames of a camera throttled to rate F are at
\* least 1/F apart (so no window of length t holds more than F*t + 1 frames).
C9_FramesSeparated ==
    [][\A w \in WorkerIds :
          (GotFrame(w) /\ hist[w].proc >= 0) =>
              (now - hist[w].proc) * threads[w].fps >= TicksPerSecond]_vars

\* This step is a call of start_camera or start_all_cameras.
StartStep ==
    /\ lastOp'.kind = "start"
    /\ lastOp' # lastOp \/ nWorkers' # nWorkers

SameEntry(d, e, c) ==
    /\ (c \in DOMAIN d) = (c \in DOMAIN e)
    /\ (c \in DOMAIN d) => d[c] = e[c]

\* C10: a camera whose open fails in start(id) or startAll gets no worker, no
\* capture and no flag entry from that call, the call returns normally, and
\* every other camera the call opened gets its worker.
C10_OpenFailureSkipsCamera ==
    [][StartStep =>
         /\ sup'.phase = "idle"
         /\ \A c \in lastOp'.tried \ lastOp'.opened :
               /\ SameEntry(processing_threads', processing_threads, c)
               /\ SameEntry(capture_objects', capture_objects, c)
               /\ SameEntry(stop_flags', stop_flags, c)
               /\ \A w \in WorkerIds : threads'[w].cam = c => threads[w].cam = c
         /\ \A c \in lastOp'.opened :
               /\ c \in DOMAIN processing_threads'
               /\ processing_threads'[c] > nWorkers
               /\ capture_objects'[c] = processing_threads'[c]
               /\ stop_flags'[c] = processing_threads'[c]
               /\ threads'[processing_threads'[c]].pc = "head"
               /\ threads'[processing_threads'[c]].cam = c
               /\ caps'[processing_threads'[c]] = "open"
               /\ ~events'[processing_threads'[c]]]_vars

\* startAll opened one camera and failed to open another.
C10_Witness ==
    /\ lastOp.kind = "start"
    /\ lastOp.opened # {}
    /\ lastOp.tried \ lastOp.opened # {}
    /\ \A c \in lastOp.opened : c \in DOMAIN processing_threads
    /\ \A c \in lastOp.tried \ lastOp.opened : c \notin DOMAIN capture_objects

\* In this step thread w calls cap.read() straight after a failed read: the
\* path from the failed read to here held no sleep but the throttle's 1 ms.
RetriesAtOnce(w) ==
    /\ threads[w].pc = "retry"
    /\ threads'[w].pc = "read"

\* C11: when frame reads fail on a camera its worker keeps running and backs
\* off (sleeps about 1 s) before the next read attempt: no failed read is
\* followed by a read attempt without the back-off sleep.
C11_FailedReadBacksOff ==
    [][\A w \in WorkerIds :
          /\ ~RetriesAtOnce(w)
          /\ (threads[w].pc = "read" /\ ~events[w]) => threads'[w].pc # "done"]_vars

\* In this step thread w returns from _process_camera_stream.
Exits(w) == Running(w) /\ threads'[w].pc = "done"

\* C12: an error raised while a frame is processed is contained in that loop
\* iteration: the worker is back at the loop head for the next frame, and a
\* worker loop only ever exits when its cancellation flag is set.
C12_FrameErrorContained ==
    [][\A w \in WorkerIds :
          /\ Exits(w) => (events[w] /\ threads[w].pc \in {"head", "retry", "backoff"})
          /\ threads[w].pc = "process" => threads'[w].pc \in {"process", "head", "backoff"}]_vars

\* A frame's processing raised, and the worker, not cancelled, is at the loop
\* head again.
C12_Witness ==
    \E w \in WorkerIds : threads[w].pc = "backoff" /\ ~events[w] /\ hist[w].proc >= 0

(***************************************************************************)
(* Properties of the detection callbacks.                                  *)
(***************************************************************************)
\* The callback returned for the detection in outcome.det.
Returned == outcome.result \in {"no_plate", "rate_limited", "low_confidence",
                                "dispatched", "dispatch_failed", "occupancy_logged"}

\* The callback returned and the rate limiter had let the detection pass.
ReturnedAdmitted == outcome.result \in {"low_confidence", "dispatched",
                                        "dispatch_failed"}

\* The detection passes every gate other than the rate limiter.
PassesOtherGates(det) ==
    /\ det.plate # NoPlate
    /\ det.role = "ENTRY" => ~LowConfidence(det)

\* C2: a detection that passes every other gate and arrives less than the
\* cooldown after the last admitted one for its (eventType, plate) key
\* produces no backend call; one that arrives once the cooldown has elapsed
\* (or is the first for its key) produces exactly one.
C2_CooldownGate ==
    (Returned /\ PassesOtherGates(outcome.det)) =>
        outcome.scheduled =
            IF outcome.since >= 0 /\ outcome.since < ApiCooldown THEN 0 ELSE 1

\* C3: the rate limiter's check and record are atomic per key: a detection
\* is admitted only if none was admitted for its key within the cooldown,
\* also when two camera threads submit the key at the same time.
C3_AtMostOneAdmitted ==
    outcome.result = "admitted" =>
        (outcome.since < 0 \/ outcome.since >= ApiCooldown)

\* C4: an ENTRY detection with plate text, with plate confidence at or above
\* the threshold and with its key not in cooldown results in exactly one
\* registerEntry call being issued.
C4_EntryDispatched ==
    (/\ ReturnedAdmitted
     /\ outcome.det.role = "ENTRY"
     /\ outcome.det.conf >= PlateConfidenceThreshold) =>
        outcome.scheduled = 1

\* C5: every ENTRY detection (carrying plate text) whose plate confidence is
\* below the threshold results in no backend call and adds exactly 1 to
\* failed_detections.
C5_LowConfidenceCounted ==
    (/\ Returned
     /\ outcome.det.role = "ENTRY"
     /\ outcome.det.plate # NoPlate
     /\ LowConfidence(outcome.det)) =>
        (outcome.scheduled = 0 /\ outcome.failed = 1)

\* Backend calls handed over or already accounted for in the counters.
CallsAccounted ==
    Len(tasks) + detection_stats.successful_entries
               + detection_stats.successful_exits
               + detection_stats.failed_detections

\* C13: each admitted backend call is attempted exactly once: when the
\* callback has returned for an admitted ENTRY or EXIT detection that passes
\* the gates, one call has been handed over for it, to end in exactly one of
\* the success and failure counters.
C13_AdmittedCallAttemptedOnce ==
    (ReturnedAdmitted /\ PassesOtherGates(outcome.det)) =>
        (outcome.scheduled = 1 /\ CallsAccounted >= 1)

\* C14: events are routed by the role of the originating camera only: a call
\* handed over for an ENTRY detection is registerEntry, for an EXIT detection
\* registerExit, and an INDOOR detection causes an occupancy-update call.
C14_RoutedByRole ==
    /\ \A i \in 1..Len(tasks) :
          /\ tasks[i].det.role = "ENTRY" => tasks[i].api = "registerEntry"
          /\ tasks[i].det.role = "EXIT" => tasks[i].api = "registerExit"
    /\ (Returned /\ outcome.det.role = "INDOOR") => outcome.scheduled = 1

\* A step in which a callback took a detection / finished one.
Delivered == delivered' = delivered + 1

Finished == \E t \in HandlerIds : handlers[t].pc = "record" /\ handlers'[t].pc = "idle"

\* C24: a request the rate limiter drops leaves the timestamp of its key,
\* every counter and the scheduled backend calls as they were.
C24_DropHasNoSideEffect ==
    [][(Delivered /\ outcome'.result = "rate_limited") =>
            /\ last_api_call' = last_api_call
            /\ detection_stats' = detection_stats
            /\ tasks' = tasks
      ]_vars

\* A request was dropped some time after the timestamp of its key was stored.
C24_Witness ==
    /\ outcome.result = "rate_limited"
    /\ KeyOf(outcome.det) \in DOMAIN last_api_call
    /\ last_api_call[KeyOf(outcome.det)] < clock

\* C25: the timestamp of a key is stored only for a detection that passed the
\* confidence gate and went on to dispatch; a detection rejected for low
\* confidence leaves the rate-limit table as it was.
C25_CooldownBetweenAccepted ==
    [][last_api_call' # last_api_call =>
            /\ Finished
            /\ outcome'.result \in {"dispatched", "dispatch_failed"}
      ]_vars

\* C29: an ENTRY or EXIT detection without plate text is discarded at once:
\* the rate-limit table, the counters, the scheduled backend calls and the
\* callbacks under way stay as they were.
C29_NoPlateDiscarded ==
    [][(Delivered /\ outcome'.det.role \in {"ENTRY", "EXIT"}
                  /\ outcome'.det.plate = NoPlate) =>
            /\ outcome'.result = "no_plate"
            /\ last_api_call' = last_api_call
            /\ detection_stats' = detection_stats
            /\ tasks' = tasks
            /\ handlers' = handlers
      ]_vars

\* An EXIT detection without plate was discarded while the table had entries.
C29_Witness ==
    /\ outcome.result = "no_plate"
    /\ outcome.det.role = "EXIT"
    /\ last_api_call # EmptyDict

\* C30: handling a detection of one event type leaves the timestamps of the
\* other type's keys alone, and an EXIT detection with plate text that the
\* rate limiter admits is dispatched whatever its confidence.
C30_KeysPerEventType ==
    [][/\ \A key \in Keys :
             (key \in DOMAIN last_api_call' /\
              (key \notin DOMAIN last_api_call \/ last_api_call'[key] # last_api_call[key]))
                => Finished /\ KeyOf(outcome'.det) = key
       /\ (Finished /\ outcome'.det.role = "EXIT") =>
             /\ outcome'.result = "dispatched"
             /\ tasks' = Append(tasks, [api |-> "registerExit", det |-> outcome'.det])
      ]_vars

(***************************************************************************)
(* Properties of the entry pipeline.                                       *)
(***************************************************************************)
BackendCallPending == \E i \in 1..Len(ep_calls) : ep_calls[i].state = "pending"

\* The run loop is free to read and process frames.
WorkerCanTakeFrames == ep.pc \in {"read", "process"}

\* C6: handling a detection never makes the worker wait for the backend:
\* while a backend call is pending the worker can read and process its next
\* frames.
C6_WorkerNeverWaitsForBackend ==
    BackendCallPending => WorkerCanTakeFrames

\* C15: a validated plate text identical to the last accepted plate is
\* suppressed (no event, no backend call) if and only if less than 10 seconds
\* have passed since that plate was last accepted.
C15_DuplicateWithinWindow ==
    /\ ep.last_result = "duplicate" => ep.elapsed < DuplicateWindow
    /\ ep.last_result = "accepted_repeat" => ep.elapsed >= DuplicateWindow

(***************************************************************************)
(* Properties of the slot detector and the indoor pipeline.                *)
(***************************************************************************)
\* How many entries of the sequence seq are k.
Count(seq, k) == Cardinality({m \in DOMAIN seq : seq[m] = k})

\* A step of detect_slot_occupancy / of a processed process_frame.
DetectStep == sd_last'.op = "detect" /\ UNCHANGED indoorVars

ProcessedStep == ip'.frame_count = ip.frame_count + 1 /\ ip'.result.returned = "result"

\* C16: in every scoring cycle of a slot that has a previous cycle, exactly
\* one change entry is produced when the occupied flag differs from the flag
\* of the previous cycle, and none when it is the same; this holds for the
\* slot detector's log and for the indoor pipeline's occupancy changes.
C16_ChangeIffFlagDiffers ==
    [][/\ DetectStep =>
            \A j \in DOMAIN sd_last'.slot_statuses :
                LET status == sd_last'.slot_statuses[j] IN
                status.slot_id \in DOMAIN scored =>
                    Count(sd_last'.changes, status.slot_id)
                        = IF scored[status.slot_id] # status.is_occupied THEN 1 ELSE 0
       /\ ProcessedStep =>
            \A k \in DOMAIN ip'.result.spot_states :
                k \in DOMAIN ip_seen =>
                    Count(ip'.result.occupancy_changes, k)
                        = IF ip_seen[k] # ip'.result.spot_states[k] THEN 1 ELSE 0
      ]_vars


\* The ROIs of a layout, as (camera, index) pairs.
RoiKeys(rois) == {<<c, i>> : c \in DOMAIN rois, i \in 1..BikeSlotsPerCamera} \cap
                 {p \in (DOMAIN rois) \X (1..BikeSlotsPerCamera) : p[2] \in DOMAIN rois[p[1]]}

RoiAt(rois, p) == rois[p[1]][p[2]]

\* C17: while the generated layout is in use, every slot id is
\* floor offset (A 0, B 1000) + type offset (CAR 0, BIKE 100) + the slot's
\* number within its type, there are 20 car and 16 bike slots on each floor,
\* and the 72 ids are pairwise distinct.
C17_SlotIdsDistinct ==
    camera_rois = InitializeSlotLayout =>
        LET R == RoiKeys(camera_rois)
            Of(floor, type) == {p \in R : /\ RoiAt(camera_rois, p).slot_code[1] = floor
                                          /\ RoiAt(camera_rois, p).vehicle_type = type}
        IN
        /\ \A p \in R :
              LET roi == RoiAt(camera_rois, p) IN
              roi.slot_id = (IF roi.slot_code[1] = "A" THEN 0 ELSE 1000)
                            + (IF roi.vehicle_type = "CAR" THEN 0 ELSE 100)
                            + roi.slot_code[3]
        /\ \A floor \in {"A", "B"} :
              /\ Cardinality(Of(floor, "CAR")) = 20
              /\ Cardinality(Of(floor, "BIKE")) = 16
        /\ Cardinality(R) = 72
        /\ \A p, q \in R :
              p # q => RoiAt(camera_rois, p).slot_id # RoiAt(camera_rois, q).slot_id

\* The generated layout is in use and slots of a car camera and of a bike
\* camera were scored under their generated ids.
C17_Witness ==
    /\ camera_rois = InitializeSlotLayout
    /\ {1, 101} \subseteq DOMAIN previous_statuses

\* C18: in the generated layout every ROI carries the id of the camera it is
\* listed under; the k-th car camera of a floor lists exactly the 4 car slots
\* 4(k-1)+1..4k in one row, the k-th bike camera exactly the 8 bike slots
\* 8(k-1)+1..8k in two rows of four; every slot is listed by exactly one camera.
C18_EveryRoiUnderOneCamera ==
    camera_rois = InitializeSlotLayout =>
        LET R == RoiKeys(camera_rois)
            Numbers(c) == {camera_rois[c][i].slot_code[3] : i \in DOMAIN camera_rois[c]}
            Xs(c, y) == {camera_rois[c][i].coordinates[1] :
                            i \in {j \in DOMAIN camera_rois[c] :
                                      camera_rois[c][j].coordinates[2] = y}}
            Ys(c) == {camera_rois[c][i].coordinates[2] : i \in DOMAIN camera_rois[c]}
            Types(c) == {camera_rois[c][i].vehicle_type : i \in DOMAIN camera_rois[c]}
        IN
        /\ DOMAIN camera_rois = 1..14
        /\ \A p \in R : RoiAt(camera_rois, p).camera_id = p[1]
        /\ \A c \in DOMAIN camera_rois :
              LET k == ((c - 1) % 7) + 1 IN
              IF k <= 5
              THEN /\ Len(camera_rois[c]) = 4
                   /\ Types(c) = {"CAR"}
                   /\ Numbers(c) = (4 * (k - 1) + 1)..(4 * k)
                   /\ Cardinality(Ys(c)) = 1
                   /\ \A y \in Ys(c) : Cardinality(Xs(c, y)) = 4
              ELSE /\ Len(camera_rois[c]) = 8
                   /\ Types(c) = {"BIKE"}
                   /\ Numbers(c) = (8 * (k - 6) + 1)..(8 * (k - 5))
                   /\ Cardinality(Ys(c)) = 2
                   /\ \A y \in Ys(c) : Cardinality(Xs(c, y)) = 4
        /\ \A floor \in {"A", "B"}, type \in {"CAR", "BIKE"} :
              \A n \in 1..(IF type = "CAR" THEN 20 ELSE 16) :
                 Cardinality({p \in R :
                     /\ RoiAt(camera_rois, p).slot_code[1] = floor
                     /\ RoiAt(camera_rois, p).vehicle_type = type
                     /\ RoiAt(camera_rois, p).slot_code[3] = n}) = 1

\* A frame of a bike camera of the generated layout was scored: one status
\* for each of its eight ROIs.
C18_Witness ==
    /\ camera_rois = InitializeSlotLayout
    /\ sd_last.op = "detect"
    /\ camera_rois[sd_last.camera_id][1].vehicle_type = "BIKE"
    /\ Len(sd_last.slot_statuses) = 8

\* The status a detect call returned last for slot k.
LatestStatus(statuses, k) ==
    statuses[CHOOSE j \in DOMAIN statuses :
                /\ statuses[j].slot_id = k
                /\ \A m \in DOMAIN statuses : statuses[m].slot_id = k => m <= j]

\* C19: previous_statuses holds one entry per slot id, for exactly the slots
\* that were scored; a scoring pass puts the newest status of each slot it
\* scored there and touches no other entry; no other operation changes the
\* entries, and no operation removes one, reloading the ROIs included.
C19_OneSlotStatePerSlot ==
    [][/\ DOMAIN previous_statuses \subseteq DOMAIN previous_statuses'
       /\ DOMAIN previous_statuses' = DOMAIN scored'
       /\ \A k \in DOMAIN previous_statuses' : previous_statuses'[k].slot_id = k
       /\ IF DetectStep
          THEN LET ids == {sd_last'.slot_statuses[j].slot_id :
                              j \in DOMAIN sd_last'.slot_statuses}
               IN /\ \A k \in ids :
                        previous_statuses'[k] = LatestStatus(sd_last'.slot_statuses, k)
                  /\ \A k \in DOMAIN previous_statuses' \ ids :
                        /\ k \in DOMAIN previous_statuses
                        /\ previous_statuses'[k] = previous_statuses[k]
          ELSE previous_statuses' = previous_statuses
      ]_vars

\* The ROIs were reloaded and the status of a slot that no camera lists any
\* more is still there.
C19_Witness ==
    /\ sd_last.op = "load"
    /\ \E k \in DOMAIN previous_statuses :
          \A p \in RoiKeys(camera_rois) : RoiAt(camera_rois, p).slot_id # k

\* C20: the score of every ROI of a scored frame, in hundredths, is
\* 40 * foreground ratio + 30 * edge ratio + 30 * min(variance / 1000, 1),
\* and 0 for an empty region; it lies in 0..100; the slot is reported
\* occupied exactly when the score is above 40; ratios 0.6, 0.5, 0.5 give
\* 54 and an occupied slot.
C20_ScoreAndThreshold ==
    sd_last.op = "detect" =>
        \A j \in DOMAIN sd_last.slot_statuses :
            LET status == sd_last.slot_statuses[j]
                region == sd_last.regions[j]
                nv == IF region.variance < 10 THEN region.variance ELSE 10
            IN
            /\ status.confidence = IF region.size = 0 THEN 0
                                   ELSE 4 * region.fg + 3 * region.edge + 3 * nv
            /\ status.confidence \in 0..100
            /\ status.is_occupied <=> status.confidence > 40
            /\ (region.size > 0 /\ region.fg = 6 /\ region.edge = 5 /\ nv = 5) =>
                  status.confidence = 54 /\ status.is_occupied

\* A frame with the ratios 0.6, 0.5, 0.5 was scored, and so was a region
\* whose score is the threshold itself.
C20_Witness ==
    /\ sd_last.op = "detect"
    /\ \E j \in DOMAIN sd_last.slot_statuses :
          /\ sd_last.slot_statuses[j].confidence = 54
          /\ sd_last.slot_statuses[j].is_occupied
    /\ \E k \in DOMAIN previous_statuses :
          /\ previous_statuses[k].confidence = OccupancyThreshold
          /\ ~previous_statuses[k].is_occupied

\* C26: every camera that has ROIs configured has a background model, at
\* any time: after construction and after any load of a ROI configuration.
C26_OneBackgroundModelPerCamera ==
    \A c \in DOMAIN camera_rois : camera_rois[c] # <<>> => c \in bg_subtractors

(***************************************************************************)
(* Properties of the functions of one call.                                *)
(***************************************************************************)
\* C21: of two regions that differ in one of foreground share, edge share
\* and variance, and agree in the other two, the one with the larger value
\* never has the smaller occupancy score.
C21_ScoreMonotonic ==
    (/\ calc.op = "score"
     /\ calc.lo.size = calc.hi.size
     /\ calc.lo.fg <= calc.hi.fg
     /\ calc.lo.edge <= calc.hi.edge
     /\ calc.lo.variance <= calc.hi.variance) =>
        calc.score_lo <= calc.score_hi

\* Two regions were scored of which one has more foreground and the higher
\* score.
C21_Witness ==
    /\ calc.op = "score"
    /\ calc.lo.fg < calc.hi.fg
    /\ calc.lo.edge = calc.hi.edge /\ calc.lo.variance = calc.hi.variance
    /\ calc.score_lo < calc.score_hi

\* C22: cleaning a cleaned plate text changes nothing, for the ANPR cleaner
\* and for the cleaner of the OCR module.
C22_CleanIdempotent ==
    calc.op \in {"clean_anpr", "clean_ocr"} => calc.twice = calc.once

\* The ANPR cleaner changed a text and kept a space inside it.
C22_Witness ==
    /\ calc.op = "clean_anpr"
    /\ calc.once # calc.x
    /\ \E i \in DOMAIN calc.once : calc.once[i] = " "

\* The texts of the attempts that pass the gate: the cleaned text of the
\* attempt's most confident finding at or above the confidence threshold,
\* if it has the format of a plate.
PassingResults ==
    {t \in {ReadText(calc.results[i]) : i \in 1..3} : ValidatePlateFormat(t)}

\* C23: the plate the three OCR attempts give is one of the passing results
\* and no passing result is longer; there is no plate only when no attempt
\* gives a passing result.
C23_LongestPassingWins ==
    calc.op = "ocr" =>
        /\ calc.accepted # <<>> =>
              /\ calc.accepted \in PassingResults
              /\ \A t \in PassingResults : Len(t) <= Len(calc.accepted)
        /\ calc.accepted = <<>> => PassingResults = {}

\* C27: a frame of an ENTRY or EXIT camera is handed to the vehicle and plate
\* detection and not to the slot occupancy scorer; a frame of an INDOOR
\* camera is handed to the slot occupancy scorer and not to the vehicle and
\* plate detection.
C27_RoutedByCameraRole ==
    calc.op = "process_frame" =>
        IF calc.role = "INDOOR"
        THEN calc.frame_to = {"slot_detector"}
        ELSE /\ "vehicle_detector" \in calc.frame_to
             /\ "slot_detector" \notin calc.frame_to

(***************************************************************************)
(* Properties of the backend's routers.                                    *)
(***************************************************************************)
\* A step in which the backend answers an exit request for a plate.
ExitByPlateStep ==
    /\ response'.n = response.n + 1
    /\ response'.request.op = "exit_by_license"

\* C28: an exit request for a plate that has an ACTIVE ticket closes that
\* ticket, sets its slot to FREE with no current plate and answers 200 with
\* the parking duration in minutes; an exit request for a plate without an
\* ACTIVE ticket answers 404 and changes no ticket and no slot.
C28_ExitClosesTicketOrNotFound ==
    [][ExitByPlateStep =>
        LET active == ActiveTicketIds(db_tickets, response'.request.license_plate)
        IN  IF active # {}
            THEN \E id \in active :
                   LET slot_id == db_tickets[id].slot_id IN
                   /\ db_tickets'[id].status = "CLOSED"
                   /\ db_slots'[slot_id].status = "FREE"
                   /\ db_slots'[slot_id].current_plate = Null
                   /\ response'.status = 200
                   /\ response'.body.parking_duration_minutes =
                        TruncDiv(db_tickets'[id].exit_time[1] - db_tickets[id].entry_time,
                                 SecondsPerMinute)
            ELSE /\ response'.status = 404
                 /\ UNCHANGED <<db_tickets, db_slots>>]_vars

(***************************************************************************)
(* Properties of the ROI configuration file.                               *)
(***************************************************************************)
\* The camera-to-ROI mapping: per camera the slot ids, slot codes,
\* coordinates and vehicle types of its ROIs, in order.
RoiMapping(rois) ==
    [c \in DOMAIN rois |->
        [j \in DOMAIN rois[c] |->
            [slot_id |-> rois[c][j].slot_id,
             slot_code |-> rois[c][j].slot_code,
             coordinates |-> rois[c][j].coordinates,
             vehicle_type |-> rois[c][j].vehicle_type]]]

\* A load that gives what loading the saved file gives.
LoadsSavedStep ==
    /\ roi_file.written
    /\ sd_last'.op = "load"
    /\ camera_rois' = LoadEach(roi_file.cameras, 1, EmptyDict)

\* C31: saving the ROI configuration and loading the saved document back
\* yields the camera-to-ROI mapping that was saved: the same camera ids and
\* per camera the same slot ids, slot codes, coordinates and vehicle types in
\* the same order.
C31_SaveLoadRoundTrip ==
    [][LoadsSavedStep => RoiMapping(camera_rois') = RoiMapping(roi_file.rois)]_vars

\* Reached: a saved configuration of two cameras, one with a car and a bike
\* slot, was loaded back after another configuration had been loaded.
C31_Witness ==
    /\ roi_file.written
    /\ sd_last.op = "load"
    /\ camera_rois = LoadEach(roi_file.cameras, 1, EmptyDict)
    /\ DOMAIN camera_rois = {1, NewCamera}
    /\ \E c \in DOMAIN camera_rois : Len(camera_rois[c]) = 2

(***************************************************************************)
(* Properties of the supervisor's maps and of a restarted camera.          *)
(***************************************************************************)
\* The threads created by the step.
Started(w) == nWorkers < w /\ w <= nWorkers'

\* C32: start(id) after stop(id) creates a new worker with a fresh, unset
\* cancellation flag and a fresh open capture, both registered under the id;
\* a flag is set only by a stop of the camera whose registered flag it is, so
\* the earlier stop never cancels the new worker; a flag that is set stays
\* set, and a worker ends at its loop head exactly on its own flag, so an
\* old worker that outlived the join keeps observing its own, set flag.
C32_RestartGetsFreshFlag ==
    [][\A w \in WorkerIds :
          /\ Started(w) =>
                /\ ~events'[w]
                /\ caps'[w] = "open"
                /\ threads'[w].pc = "head"
                /\ stop_flags'[threads'[w].cam] = w
                /\ capture_objects'[threads'[w].cam] = w
                /\ processing_threads'[threads'[w].cam] = w
          /\ events[w] => events'[w]
          /\ ~events[w] /\ events'[w] =>
                /\ threads[w].cam \in DOMAIN stop_flags
                /\ stop_flags[threads[w].cam] = w
          /\ threads[w].pc # "done" /\ threads'[w].pc = "done" => events[w]
          /\ (/\ threads[w].pc \in {"head", "retry", "backoff"}
              /\ events[w]
              /\ threads'[w] # threads[w]) => threads'[w].pc = "done"]_vars

\* Reached: camera 1 was stopped while its worker was blocked in a read, the
\* join timed out, and camera 1 was started again: the old worker still runs
\* with its flag set, the new worker runs with its own flag unset.
C32_Witness ==
    \E v \in WorkerIds, w \in WorkerIds :
        /\ v < w
        /\ threads[v].cam = threads[w].cam
        /\ threads[v].pc \in {"read", "process", "head", "retry", "backoff"}
        /\ events[v]
        /\ threads[w].pc \in {"read", "process"}
        /\ ~events[w]
        /\ stop_flags[threads[w].cam] = w

DifferingSpots ==
    {k \in DOMAIN ip'.result.spot_states :
        ip'.result.spot_states[k] #
            (IF k \in DOMAIN ip.spot_states THEN ip.spot_states[k] ELSE FALSE)}

\* C34: in a processed frame an occupancy update is sent to the backend if
\* and only if the observed occupancy of at least one configured spot differs
\* from its tracked state; every update sent has occupied + available =
\* total; and after the frame the tracked state of every changed spot is the
\* observed one, whether the backend call succeeded or failed.
C34_UpdateIffChange ==
    [][ProcessedStep =>
          /\ DOMAIN ip'.result.spot_states = {ip.parking_spots[j] : j \in DOMAIN ip.parking_spots}
          /\ ip'.result.sent # <<>> <=> DifferingSpots # {}
          /\ ip'.result.backend \in {"response", "error"} <=> DifferingSpots # {}
          /\ \A j \in DOMAIN ip'.result.sent :
                LET update == ip'.result.sent[j] IN
                /\ update.occupied_spots + update.available_spots = update.total_spots
                /\ update.total_spots = Len(ip.parking_spots)
                /\ {update.changes[m] : m \in DOMAIN update.changes} = DifferingSpots
          /\ \A k \in DifferingSpots :
                /\ k \in DOMAIN ip'.spot_states
                /\ ip'.spot_states[k] = ip'.result.spot_states[k]]_vars

\* Reached: a frame in which one of two spots changed was processed, the
\* update was sent and the backend call failed; the spot's new state is
\* tracked.
C34_Witness ==
    /\ ip.result.returned = "result"
    /\ ip.result.backend = "error"
    /\ Len(ip.result.sent) = 1
    /\ Len(ip.parking_spots) = 2
    /\ Len(ip.result.occupancy_changes) = 1
    /\ ip.result.occupied_spots = 1
    /\ ip.spot_states[ip.result.occupancy_changes[1]]

(***************************************************************************)
(* Properties of the backend's tickets, slots and floor counters.          *)
(***************************************************************************)
\* The tickets of a plate that are ACTIVE in the table given.
ActiveOf(tickets, plate) ==
    {id \in DOMAIN tickets :
        tickets[id].plate_number = plate /\ tickets[id].status = "ACTIVE"}

\* A step in which the backend answers an entry request.
EntryStep ==
    /\ response'.n = response.n + 1
    /\ response'.request.op = "entry"

\* C35: with entry and exit requests handled one at a time, each plate has at
\* most one ACTIVE ticket, and an entry request for a plate that has an
\* ACTIVE ticket is answered with an error and changes no ticket, no slot and
\* no floor counter.
C35_OneActiveTicketPerPlate ==
    [][/\ \A plate \in DbPlates : Cardinality(ActiveOf(db_tickets', plate)) <= 1
       /\ (EntryStep /\ ActiveOf(db_tickets, response'.request.license_plate) # {}) =>
             /\ response'.status >= 400
             /\ UNCHANGED <<db_tickets, db_slots, db_floors>>]_vars

\* Reached: an entry request for a car whose plate has an ACTIVE ticket was
\* answered 400 while a car slot was free.
C35_Witness ==
    /\ response.request.op = "entry"
    /\ response.request.vehicle_type = "CAR"
    /\ response.status = 400
    /\ ActiveOf(db_tickets, response.request.license_plate) # {}
    /\ \E id \in DOMAIN db_slots :
          db_slots[id].slot_type = "CAR" /\ db_slots[id].status = "FREE"

\* The FREE slots of a vehicle type on the floors given.
FreeSlots(slots, vehicle_type, floor_names) ==
    {id \in DOMAIN slots : /\ slots[id].status = "FREE"
                           /\ slots[id].slot_type = vehicle_type
                           /\ slots[id].floor \in floor_names}

\* The slots ACTIVE tickets refer to, one entry per ticket.
ActiveSlots(tickets) ==
    [id \in {t \in DOMAIN tickets : tickets[t].status = "ACTIVE"} |-> tickets[id].slot_id]

OccupiedSlots(slots, floor_name, slot_type) ==
    Cardinality({id \in DOMAIN slots : /\ slots[id].floor = floor_name
                                       /\ slots[id].slot_type = slot_type
                                       /\ slots[id].status = "OCCUPIED"})

\* Each floor's counters are the numbers of its OCCUPIED car and bike slots.
CountersMatch(floor_rows, slots) ==
    \A f \in DOMAIN floor_rows :
        /\ floor_rows[f].occupied_car_slots = OccupiedSlots(slots, f, "CAR")
        /\ floor_rows[f].occupied_bike_slots = OccupiedSlots(slots, f, "BIKE")

\* A step in which the backend answers an exit request for a ticket that is
\* ACTIVE, named by its id or by its plate.
ExitOfActiveStep ==
    /\ response'.n = response.n + 1
    /\ \/ /\ response'.request.op = "exit_by_license"
          /\ ActiveOf(db_tickets, response'.request.license_plate) # {}
       \/ /\ response'.request.op = "exit"
          /\ response'.request.ticket_id \in DOMAIN db_tickets
          /\ db_tickets[response'.request.ticket_id].status = "ACTIVE"

ResetStep == outcome'.result = "statistics_reset" /\ outcome' # outcome

\* C38: in every reachable state total_detections is at least
\* successful_entries + successful_exits + failed_detections, and
\* reset_statistics sets the four counters to 0 and leaves last_api_call as
\* it was.
C38_TotalCoversOutcomes ==
    [][/\ detection_stats'.total_detections >=
              detection_stats'.successful_entries
            + detection_stats'.successful_exits
            + detection_stats'.failed_detections
       /\ ResetStep =>
              /\ detection_stats'.total_detections = 0
              /\ detection_stats'.successful_entries = 0
              /\ detection_stats'.successful_exits = 0
              /\ detection_stats'.failed_detections = 0
              /\ last_api_call' = last_api_call]_vars

=============================================================================
